---- MODULE Spec2Model ----
(***************************************************************************)
(* Qase migration scripts: the text repair functions (CSV references,     *)
(* attachment references, HTML tags), the per-record analysis that builds  *)
(* the update payload, and the reconciliation drivers that submit it.      *)
(*                                                                         *)
(* A text is a sequence of one-character strings; Python's None is the     *)
(* value None below, which is no text (its only element is not a           *)
(* character).  A dict is a function whose DOMAIN is its set of keys.      *)
(*                                                                         *)
(* A value that the code binds to a local variable and reads several times *)
(* is passed here as the parameter of a helper operator, so that it is     *)
(* written once.                                                           *)
(***************************************************************************)
EXTENDS Integers, Sequences, FiniteSets, TLC

VARIABLES
    family,      \* which script runs: "csv", "html", "att", or a bulk-delete script
    dry_run,     \* args.dry_run
    server,      \* the records of the project, as the API serves them
    offset,      \* offset of the page get_all_test_cases asks for next
    requested,   \* the offsets of the page requests sent so far, in order
    fetch_failed,\* a page request of get_all_test_cases has failed
    test_cases,  \* the list api.get_all_test_cases() returned
    idx,         \* 1-based index of the record the for loop is at
    pc,          \* position of the driver
    updates,     \* the payload analyze_test_case built for test_cases[idx]
    stats,       \* the run-level counters
    log,         \* per processed record: what was sent and what was counted
    text,        \* input of the pure text functions
    once,        \* result of one application
    twice,       \* result of the application to the repaired text
    tpc,         \* position of the text specification
    attachments, \* the list get_all_attachments() returned
    custom_fields, \* the ids of the list get_all_custom_fields() returned
    answer,      \* what the operator typed at the confirmation prompt, None before it
    queue,       \* work queue of the executor: tasks no worker has taken yet
    workers,     \* per pool thread: position, task, outcome and the value it read
    lock,        \* ProgressCounter.lock: 0 when free, else the thread holding it
    counter,     \* ProgressCounter: deleted, failed, total
    deletions,   \* the DELETE requests sent, in order, by attachment hash
    completed,   \* futures the main thread has seen complete
    mainpc,      \* position of main of delete_attachments_by_size.py
    jira_links,  \* link_jira_issues.py: the cases with JIRA issues, in order
    failed_batches \* link_jira_issues.py: the batches kept for individual retry

vars == <<family, dry_run, server, offset, requested, fetch_failed, test_cases, idx, pc,
          updates, stats, log, text, once, twice, tpc,
          attachments, custom_fields, answer, queue, workers, lock, counter, deletions,
          completed, mainpc, jira_links, failed_batches>>

linkVars == <<jira_links, failed_batches>>

LinkIdle == jira_links = <<>> /\ failed_batches = <<>>

fetchVars == <<server, offset, requested, fetch_failed>>
driverVars == <<family, dry_run, fetchVars, test_cases, idx, pc, updates, stats, log>>
textVars == <<text, once, twice, tpc>>
poolVars == <<attachments, custom_fields, answer, queue, workers, lock, counter, deletions,
              completed, mainpc>>

----------------------------------------------------------------------------
(* Python values *)

None == <<"None">>

\* `if text:` / `if not text:` on an Optional[str]
Truthy(t) == t # None /\ t # <<>>

Get(d, k) == IF k \in DOMAIN d THEN d[k] ELSE None

Put(d, k, v) == [x \in (DOMAIN d) \cup {k} |-> IF x = k THEN v ELSE d[x]]

EmptyDict == [x \in {} |-> None]

Whitespace == {" ", "\t", "\n"}

----------------------------------------------------------------------------
(* String primitives *)

Min(S) == CHOOSE x \in S : \A y \in S : x <= y
Max(S) == CHOOSE x \in S : \A y \in S : x >= y
MinOrZero(S) == IF S = {} THEN 0 ELSE Min(S)

HasAt(s, i, lit) ==
    /\ i >= 1
    /\ i + Len(lit) - 1 <= Len(s)
    /\ \A k \in 1..Len(lit) : s[i + k - 1] = lit[k]

\* index of the first ch at or after i, 0 when there is none
FirstAt(s, i, ch) == MinOrZero({j \in i..Len(s) : s[j] = ch})

RunLenTo(s, i, stop) ==
    IF i > Len(s) THEN 0 ELSE IF stop = 0 THEN Len(s) - i + 1 ELSE stop - i

\* length of the run of characters of class cls starting at i
RunLen(s, i, cls) == RunLenTo(s, i, MinOrZero({j \in i..Len(s) : s[j] \notin cls}))

\* str.replace(old, new): every non-overlapping occurrence, left to right;
\* j is the next occurrence of old at or after i (0: none)
RECURSIVE str_replace_from(_, _, _, _)
str_replace_at(s, old, new, i, j) ==
    IF j = 0 THEN SubSeq(s, i, Len(s))
    ELSE SubSeq(s, i, j - 1) \o new \o str_replace_from(s, old, new, j + Len(old))

str_replace_from(s, old, new, i) ==
    str_replace_at(s, old, new, i, MinOrZero({j \in i..Len(s) : HasAt(s, j, old)}))

str_replace(s, old, new) == str_replace_from(s, old, new, 1)

\* str.strip(): the text between its first and its last non-whitespace character
StripTo(s, solid) == IF solid = {} THEN <<>> ELSE SubSeq(s, Min(solid), Max(solid))

strip(s) == StripTo(s, {j \in 1..Len(s) : s[j] \notin Whitespace})

\* str.split('\n'); n is the first newline (0: none)
RECURSIVE split_lines(_)
split_at(s, n) ==
    IF n = 0 THEN <<s>>
    ELSE <<SubSeq(s, 1, n - 1)>> \o split_lines(SubSeq(s, n + 1, Len(s)))

split_lines(s) == split_at(s, FirstAt(s, 1, "\n"))

\* '\n'.join(lines)
RECURSIVE join_lines(_)
join_lines(lines) ==
    IF Len(lines) = 0 THEN <<>>
    ELSE IF Len(lines) = 1 THEN lines[1]
    ELSE lines[1] \o <<"\n">> \o join_lines(Tail(lines))

----------------------------------------------------------------------------
(* Regular expressions of the scripts.  MatchAt(pat, s, i) is re.match of   *)
(* the pattern at position i: the index after the match and its groups, or  *)
(* NoMatch.                                                                 *)

NoMatch == [end |-> 0, g1 |-> <<>>, g2 |-> <<>>]

Digits == {"0", "1", "2", "3", "4", "5", "6", "7", "8", "9"}

DotCsv == <<".", "c", "s", "v">>

\* !\[([^\]]+\.csv[^\]]*)\]\(([^\)]+)\)  with the '!' at b: j is the first ']'
\* after the '[', k the first ')' after the '('
CsvRefParts(s, b, j, k) ==
    IF /\ HasAt(s, b, <<"!", "[">>)
       /\ j # 0
       /\ \E p \in (b + 3)..(j - 4) : HasAt(s, p, DotCsv)
       /\ HasAt(s, j + 1, <<"(">>)
       /\ k > j + 2
    THEN [end |-> k + 1, g1 |-> SubSeq(s, b + 2, j - 1), g2 |-> SubSeq(s, j + 2, k - 1)]
    ELSE NoMatch

CsvRefClose(s, b, j) == CsvRefParts(s, b, j, IF j = 0 THEN 0 ELSE FirstAt(s, j + 2, ")"))

CsvRefAt(s, b) == CsvRefClose(s, b, FirstAt(s, b + 2, "]"))

\* pattern1 with one character allowed between the '!' and the '['
Pattern1LooseAt(s, i) ==
    IF i > 1 /\ s[i - 1] = "\\" THEN NoMatch
    ELSE IF CsvRefAt(s, i).end # 0 THEN CsvRefAt(s, i)
    ELSE IF HasAt(s, i, <<"!">>) /\ i + 2 <= Len(s) /\ s[i + 2] = "["
         THEN CsvRefAt([s EXCEPT ![i + 1] = "!"], i + 1)
         ELSE NoMatch

\* pattern1 = (?<!\\)!\[([^\]]+\.csv[^\]]*)\]\(([^\)]+)\)
Pattern1At(s, i) ==
    IF i > 1 /\ s[i - 1] = "\\" THEN NoMatch ELSE CsvRefAt(s, i)

\* pattern2 = \\!\[([^\]]+\.csv[^\]]*)\]\(([^\)]+)\)
Pattern2At(s, i) ==
    IF HasAt(s, i, <<"\\">>) THEN CsvRefAt(s, i + 1) ELSE NoMatch

NoNewline(s, a, b) == \A k \in a..b : s[k] # "\n"

EscClose == <<"\\", "]", "\\", "(">>
EscEnd == <<"\\", ")">>

\* pattern3 = \\!\\\[(.*?\.csv.*?)\\\]\\\((.*?)\\\) : the lazy quantifiers take the
\* first '.csv' (p), then the first '\]\(' (q), then the first '\)' (r) for which
\* the rest still matches; '.' matches no newline.
Pattern3Triples(s, i) ==
    { t \in ((i + 4)..Len(s)) \X ((i + 8)..Len(s)) \X ((i + 12)..Len(s)) :
        /\ HasAt(s, t[1], DotCsv) /\ NoNewline(s, i + 4, t[1] - 1)
        /\ t[2] >= t[1] + 4 /\ HasAt(s, t[2], EscClose) /\ NoNewline(s, t[1] + 4, t[2] - 1)
        /\ t[3] >= t[2] + 4 /\ HasAt(s, t[3], EscEnd) /\ NoNewline(s, t[2] + 4, t[3] - 1) }

LexLess(a, b) ==
    \/ a[1] < b[1]
    \/ a[1] = b[1] /\ a[2] < b[2]
    \/ a[1] = b[1] /\ a[2] = b[2] /\ a[3] <= b[3]

LexMin(T) == CHOOSE x \in T : \A y \in T : LexLess(x, y)

Pattern3Groups(s, i, t) ==
    [end |-> t[3] + 2, g1 |-> SubSeq(s, i + 4, t[2] - 1), g2 |-> SubSeq(s, t[2] + 4, t[3] - 1)]

Pattern3Pick(s, i, T) == IF T = {} THEN NoMatch ELSE Pattern3Groups(s, i, LexMin(T))

Pattern3At(s, i) ==
    IF ~HasAt(s, i, <<"\\", "!", "\\", "[">>) THEN NoMatch
    ELSE Pattern3Pick(s, i, Pattern3Triples(s, i))

AttachmentOpen ==
    <<"!", "[", "a", "t", "t", "a", "c", "h", "m", "e", "n", "t", "]", "(">>

AttachmentGet ==
    <<"]", "(", "i", "n", "d", "e", "x", ".", "p", "h", "p", "?", "/",
      "a", "t", "t", "a", "c", "h", "m", "e", "n", "t", "s", "/", "g", "e", "t", "/">>

Matched(e) == [end |-> e, g1 |-> <<>>, g2 |-> <<>>]

\* pattern2 = !\[attachment\]\([^\)]+\) : k is the first ')' after the '('
AttPattern2Close(s, i, k) ==
    IF HasAt(s, i, AttachmentOpen) /\ k > i + Len(AttachmentOpen)
    THEN Matched(k + 1) ELSE NoMatch

AttPattern2At(s, i) == AttPattern2Close(s, i, FirstAt(s, i + Len(AttachmentOpen), ")"))

\* pattern1 = \[!\[attachment\]\([^\)]+\)\]\(index\.php\?/attachments/get/\d+\) :
\* e is the index after the inner ![attachment](...), n the number of digits
AttPattern1Id(s, i, e, n) ==
    IF /\ HasAt(s, i, <<"[">>)
       /\ e # 0
       /\ HasAt(s, e, AttachmentGet)
       /\ n >= 1
       /\ HasAt(s, e + Len(AttachmentGet) + n, <<")">>)
    THEN Matched(e + Len(AttachmentGet) + n + 1)
    ELSE NoMatch

AttPattern1Inner(s, i, e) ==
    AttPattern1Id(s, i, e, RunLen(s, e + Len(AttachmentGet), Digits))

AttPattern1At(s, i) == AttPattern1Inner(s, i, AttPattern2At(s, i + 1).end)

\* <[^>]+> : k is the first '>' after the '<'
TagClose(s, i, k) ==
    IF HasAt(s, i, <<"<">>) /\ k > i + 1 THEN Matched(k + 1) ELSE NoMatch

TagAt(s, i) == TagClose(s, i, FirstAt(s, i + 1, ">"))

\* cls+ (greedy), at least min characters; n is the length of the run at i
RunOf(i, n, min) == IF n >= min THEN Matched(i + n) ELSE NoMatch

RunAt(s, i, cls, min) == RunOf(i, RunLen(s, i, cls), min)

MatchAt(pat, s, i) ==
    CASE pat = "csv1" -> Pattern1At(s, i)
      [] pat = "csv2" -> Pattern2At(s, i)
      [] pat = "csv3" -> Pattern3At(s, i)
      [] pat = "att1" -> AttPattern1At(s, i)
      [] pat = "att2" -> AttPattern2At(s, i)
      [] pat = "tag" -> TagAt(s, i)
      [] pat = "spaces" -> RunAt(s, i, {" "}, 1)
      [] pat = "blanks" -> RunAt(s, i, {" ", "\t"}, 1)
      [] pat = "nl3" -> RunAt(s, i, {"\n"}, 3)

\* where the leftmost match at or after i starts (0: no match)
SearchFrom(pat, s, i) == MinOrZero({j \in i..Len(s) : MatchAt(pat, s, j).end # 0})

\* re.finditer(pattern, text): the non-overlapping matches, left to right
RECURSIVE finditer_from(_, _, _)
finditer_emit(pat, s, j, m) ==
    <<[g0 |-> SubSeq(s, j, m.end - 1), g1 |-> m.g1, g2 |-> m.g2]>>
      \o finditer_from(pat, s, m.end)

finditer_at(pat, s, j) ==
    IF j = 0 THEN <<>> ELSE finditer_emit(pat, s, j, MatchAt(pat, s, j))

finditer_from(pat, s, i) == finditer_at(pat, s, SearchFrom(pat, s, i))

finditer(pat, s) == finditer_from(pat, s, 1)

\* re.sub(pattern, repl, text) for a constant replacement
RECURSIVE re_sub_from(_, _, _, _)
re_sub_at(pat, repl, s, i, j) ==
    IF j = 0 THEN SubSeq(s, i, Len(s))
    ELSE SubSeq(s, i, j - 1) \o repl \o re_sub_from(pat, repl, s, MatchAt(pat, s, j).end)

re_sub_from(pat, repl, s, i) == re_sub_at(pat, repl, s, i, SearchFrom(pat, s, i))

re_sub(pat, repl, s) == re_sub_from(pat, repl, s, 1)

----------------------------------------------------------------------------
(* csv_fixer.py: CSVFixer.find_broken_csv_references and CSVFixer.fix_text *)

\* filename_raw.replace('\\\\','\\').replace('\\_','_').replace('\\(','(')
\*             .replace('\\)',')').replace('\\.','.')
unescape_filename(raw) ==
    str_replace(
      str_replace(
        str_replace(
          str_replace(
            str_replace(raw, <<"\\", "\\">>, <<"\\">>),
            <<"\\", "_">>, <<"_">>),
          <<"\\", "(">>, <<"(">>),
        <<"\\", ")">>, <<")">>),
      <<"\\", ".">>, <<".">>)

\* the same chain followed by .replace('\\/', '/')
unescape_url(raw) == str_replace(unescape_filename(raw), <<"\\", "/">>, <<"/">>)

\* f"[{filename}]({url})"
fixed_pattern(filename, url) == <<"[">> \o filename \o <<"]", "(">> \o url \o <<")">>

\* the (broken_pattern, fixed_pattern) of the matches ms of one pattern
RefsOfMatches(pat, ms) ==
    [n \in 1..Len(ms) |->
       [broken |-> ms[n].g0,
        fixed  |-> IF pat = "csv3"
                   THEN fixed_pattern(unescape_filename(ms[n].g1), unescape_url(ms[n].g2))
                   ELSE fixed_pattern(ms[n].g1, ms[n].g2)]]

RefsOf(pat, s) == RefsOfMatches(pat, finditer(pat, s))

\* the list of (broken_pattern, fixed_pattern), pattern1's matches first
find_broken_csv_references(t) ==
    IF ~Truthy(t) THEN <<>>
    ELSE RefsOf("csv1", t) \o RefsOf("csv2", t) \o RefsOf("csv3", t)

\* for broken, fixed in broken_refs: fixed_text = fixed_text.replace(broken, fixed)
RECURSIVE replace_all_refs(_, _)
replace_all_refs(s, refs) ==
    IF refs = <<>> THEN s
    ELSE replace_all_refs(str_replace(s, refs[1].broken, refs[1].fixed), Tail(refs))

\* `return fixed_text if fixed_text != text else None`
changed_or_none(t, fixed_text) == IF fixed_text # t THEN fixed_text ELSE None

\* a repair that hands back the text itself when no pattern matched
same_when_no_refs(t, broken_refs) ==
    IF broken_refs = <<>> THEN t
    ELSE changed_or_none(t, replace_all_refs(t, broken_refs))

fix_text_refs(t, broken_refs) ==
    IF broken_refs = <<>> THEN None
    ELSE changed_or_none(t, replace_all_refs(t, broken_refs))

\* returns the fixed text, or None when nothing changed
fix_text(t) ==
    IF ~Truthy(t) THEN None ELSE fix_text_refs(t, find_broken_csv_references(t))

----------------------------------------------------------------------------
(* remove_attachment_references.py: remove_attachment_references *)

\* [re.sub(r' +', ' ', line) for line in lines]
collapse_spaces(lines) == [n \in 1..Len(lines) |-> re_sub("spaces", <<" ">>, lines[n])]

remove_attachment_references(t) ==
    IF ~Truthy(t) THEN t
    ELSE strip(
           re_sub("nl3", <<"\n", "\n">>,
             join_lines(collapse_spaces(split_lines(
               re_sub("att2", <<>>, re_sub("att1", <<>>, t)))))))

----------------------------------------------------------------------------
(* fix_html_tags.py: strip_html_tags *)

\* lines that are trimmed only: runs of blanks inside a line stay
trim_lines(lines) == [n \in 1..Len(lines) |-> strip(lines[n])]

\* [re.sub(r'[ \t]+', ' ', line.strip()) for line in lines]
clean_lines(lines) == [n \in 1..Len(lines) |-> re_sub("blanks", <<" ">>, strip(lines[n]))]

\* s without its first match of pat, which starts at j (0: no match)
cut_first(pat, s, j) ==
    IF j = 0 THEN s ELSE SubSeq(s, 1, j - 1) \o SubSeq(s, MatchAt(pat, s, j).end, Len(s))

\* the same steps with only the first tag deleted (re.sub with count=1)
strip_first_tag(t) ==
    IF ~Truthy(t) THEN t
    ELSE strip(
           re_sub("nl3", <<"\n", "\n">>,
             join_lines(clean_lines(split_lines(cut_first("tag", t, SearchFrom("tag", t, 1)))))))

strip_html_tags(t) ==
    IF ~Truthy(t) THEN t
    ELSE strip(
           re_sub("nl3", <<"\n", "\n">>,
             join_lines(clean_lines(split_lines(re_sub("tag", <<>>, t))))))

----------------------------------------------------------------------------
(* Records.  A test case is a dict with the keys id, description,            *)
(* preconditions, postconditions, steps (a list of steps) and custom_fields  *)
(* (a list of {id, value}).  A step has position, action, expected_result    *)
(* and data, and may have hash and steps (its nested steps).  A JSON null    *)
(* leaf is None; a custom field without id has no "id" key.                  *)

Placeholder == <<".">>

\* `not s.get("action") or not s["action"].strip()`
BlankAction(s) == ~Truthy(Get(s, "action")) \/ strip(s.action) = <<>>

HasNested(s) == "steps" \in DOMAIN s /\ s.steps # <<>>

\* str(field_id)
str(n) == ToString(n)

\* an analysis that emits the custom-field map even when it is empty
always_put_custom_field(upd, custom_field_updates) ==
    Put(upd, "custom_field", custom_field_updates)

\* `if custom_field_updates: updates["custom_field"] = custom_field_updates`
put_custom_field(upd, custom_field_updates) ==
    IF DOMAIN custom_field_updates # {}
    THEN Put(upd, "custom_field", custom_field_updates) ELSE upd

----------------------------------------------------------------------------
(* csv_fixer.py: CSVFixer.analyze_test_case *)

csv_scalar_put(upd, key, fixed) == IF Truthy(fixed) THEN Put(upd, key, fixed) ELSE upd

csv_scalar(upd, tc, key) == csv_scalar_put(upd, key, fix_text(Get(tc, key)))

\* one of the three `fixed_x = fix_text(x) / if fixed_x: ... elif x is not None: ...`
csv_step_leaf_put(acc, key, v, fixed) ==
    IF Truthy(fixed) THEN [step |-> Put(acc.step, key, fixed), updated |-> TRUE]
    ELSE IF v # None THEN [step |-> Put(acc.step, key, v), updated |-> acc.updated]
    ELSE acc

csv_step_leaf(acc, step, key) ==
    csv_step_leaf_put(acc, key, Get(step, key), fix_text(Get(step, key)))

\* fixed_step = {"position": ...} and `if "hash" in step: fixed_step["hash"] = ...`
put_hash(s0, step) == IF "hash" \in DOMAIN step THEN Put(s0, "hash", step.hash) ELSE s0

StepIdentifiers(step) ==
    put_hash(IF "position" \in DOMAIN step
             THEN Put(EmptyDict, "position", step.position) ELSE EmptyDict,
             step)

\* the body of `for step in steps:`
csv_fix_step(step) ==
    csv_step_leaf(
      csv_step_leaf(
        csv_step_leaf([step |-> StepIdentifiers(step), updated |-> FALSE], step, "action"),
        step, "expected_result"),
      step, "data")

\* `if steps_need_update: updates["steps"] = fixed_steps`
put_steps(upd, fixed) ==
    IF fixed # <<>> /\ \E n \in 1..Len(fixed) : fixed[n].updated
    THEN Put(upd, "steps", [n \in 1..Len(fixed) |-> fixed[n].step]) ELSE upd

csv_steps(upd, tc) ==
    put_steps(upd, [n \in 1..Len(tc.steps) |-> csv_fix_step(tc.steps[n])])

csv_field_put(acc, field, fixed_value) ==
    IF Truthy(fixed_value) /\ "id" \in DOMAIN field
    THEN Put(acc, str(field.id), fixed_value) ELSE acc

RECURSIVE csv_custom_field_updates(_, _)
csv_custom_field_updates(fields, acc) ==
    IF fields = <<>> THEN acc
    ELSE csv_custom_field_updates(Tail(fields),
           csv_field_put(acc, Head(fields), fix_text(Get(Head(fields), "value"))))

csv_custom_fields(upd, tc) ==
    put_custom_field(upd, csv_custom_field_updates(tc.custom_fields, EmptyDict))

csv_analyze_test_case(tc) ==
    csv_custom_fields(
      csv_steps(
        csv_scalar(csv_scalar(csv_scalar(EmptyDict, tc, "description"),
                              tc, "preconditions"),
                   tc, "postconditions"),
        tc),
      tc)

----------------------------------------------------------------------------
(* fix_html_tags.py: analyze_test_case *)

\* `if x: cleaned = strip_html_tags(x); if x != cleaned: updates[key] = cleaned`
cleaned_scalar_put(upd, key, v, cleaned) ==
    IF Truthy(v) /\ cleaned # v THEN Put(upd, key, cleaned) ELSE upd

html_scalar(upd, tc, key) ==
    cleaned_scalar_put(upd, key, Get(tc, key), strip_html_tags(Get(tc, key)))

\* `if x: cleaned = strip_html_tags(x); if x != cleaned: ... elif x is not None: ...`
html_step_leaf_put(acc, key, v, cleaned) ==
    IF ~Truthy(v) THEN acc
    ELSE IF cleaned # v
         THEN [step |-> Put(acc.step, key, cleaned), updated |-> TRUE]
         ELSE [step |-> Put(acc.step, key, v), updated |-> acc.updated]

html_step_leaf(acc, step, key) ==
    html_step_leaf_put(acc, key, Get(step, key), strip_html_tags(Get(step, key)))

html_fix_step(step) ==
    html_step_leaf(
      html_step_leaf(
        html_step_leaf([step |-> StepIdentifiers(step), updated |-> FALSE], step, "action"),
        step, "expected_result"),
      step, "data")

html_steps(upd, tc) ==
    put_steps(upd, [n \in 1..Len(tc.steps) |-> html_fix_step(tc.steps[n])])

\* `if value and field_id is not None: cleaned = ...; if value != cleaned: ...`
cleaned_field_put(acc, field, value, cleaned) ==
    IF Truthy(value) /\ "id" \in DOMAIN field /\ cleaned # value
    THEN Put(acc, str(field.id), cleaned) ELSE acc

RECURSIVE html_custom_field_updates(_, _)
html_custom_field_updates(fields, acc) ==
    IF fields = <<>> THEN acc
    ELSE html_custom_field_updates(Tail(fields),
           cleaned_field_put(acc, Head(fields), Get(Head(fields), "value"),
                             strip_html_tags(Get(Head(fields), "value"))))

html_custom_fields(upd, tc) ==
    put_custom_field(upd, html_custom_field_updates(tc.custom_fields, EmptyDict))

html_analyze_test_case(tc) ==
    html_custom_fields(
      html_steps(
        html_scalar(html_scalar(html_scalar(EmptyDict, tc, "description"),
                                tc, "preconditions"),
                    tc, "postconditions"),
        tc),
      tc)

----------------------------------------------------------------------------
(* remove_attachment_references.py: ensure_step_has_action, analyze_test_case *)

\* a correction that appends the placeholder to the action it finds
append_placeholder(step) ==
    Put(step, "action",
        (IF Truthy(Get(step, "action")) THEN step.action ELSE <<>>) \o Placeholder)

\* `fixed_step["action"] = "."` when the action is missing, empty or blank
fill_action(step) == IF BlankAction(step) THEN Put(step, "action", Placeholder) ELSE step

RECURSIVE ensure_step_has_action(_)
ensure_nested(step, fixed_step) ==
    IF HasNested(fixed_step)
    THEN Put(fixed_step, "steps",
             [n \in 1..Len(step.steps) |-> ensure_step_has_action(step.steps[n])])
    ELSE fixed_step

ensure_step_has_action(step) == ensure_nested(step, fill_action(step))

att_scalar(upd, tc, key) ==
    cleaned_scalar_put(upd, key, Get(tc, key), remove_attachment_references(Get(tc, key)))

\* `if step.get(k): cleaned = ...; if step[k] != cleaned: fixed_step[k] = cleaned`
att_step_leaf_put(acc, key, v, cleaned) ==
    IF Truthy(v) /\ cleaned # v
    THEN [step |-> Put(acc.step, key, cleaned), changed |-> TRUE]
    ELSE acc

att_step_leaf(acc, step, key) ==
    att_step_leaf_put(acc, key, Get(step, key), remove_attachment_references(Get(step, key)))

\* `if not fixed_step.get("action") or not fixed_step["action"].strip():`
att_fill_action(acc) ==
    IF BlankAction(acc.step)
    THEN [step |-> Put(acc.step, "action", Placeholder), changed |-> TRUE]
    ELSE acc

\* the nested function fix_step of analyze_test_case: (fixed_step, changed)
RECURSIVE fix_step(_)
fix_nested_put(leaves, nested) ==
    [step |-> Put(leaves.step, "steps", [n \in 1..Len(nested) |-> nested[n].step]),
     changed |-> leaves.changed \/ \E n \in 1..Len(nested) : nested[n].changed]

fix_nested(step, leaves) ==
    IF HasNested(step)
    THEN fix_nested_put(leaves, [n \in 1..Len(step.steps) |-> fix_step(step.steps[n])])
    ELSE leaves

fix_step(step) ==
    fix_nested(step,
      att_step_leaf(
        att_step_leaf(
          att_fill_action(att_step_leaf([step |-> step, changed |-> FALSE], step, "action")),
          step, "expected_result"),
        step, "data"))

\* `if steps_need_update: final_fixed_steps = [ensure_step_has_action(s) ...]`
att_put_steps(upd, fixed) ==
    IF fixed # <<>> /\ \E n \in 1..Len(fixed) : fixed[n].changed
    THEN Put(upd, "steps", [n \in 1..Len(fixed) |-> ensure_step_has_action(fixed[n].step)])
    ELSE upd

att_steps(upd, tc) ==
    att_put_steps(upd, [n \in 1..Len(tc.steps) |-> fix_step(tc.steps[n])])

\* `if value: cleaned = ...; if value != cleaned and field_id is not None: ...`
RECURSIVE att_custom_field_updates(_, _)
att_custom_field_updates(fields, acc) ==
    IF fields = <<>> THEN acc
    ELSE att_custom_field_updates(Tail(fields),
           cleaned_field_put(acc, Head(fields), Get(Head(fields), "value"),
                             remove_attachment_references(Get(Head(fields), "value"))))

att_custom_fields(upd, tc) ==
    put_custom_field(upd, att_custom_field_updates(tc.custom_fields, EmptyDict))

att_analyze_test_case(tc) ==
    att_custom_fields(
      att_steps(
        att_scalar(att_scalar(att_scalar(EmptyDict, tc, "description"),
                              tc, "preconditions"),
                   tc, "postconditions"),
        tc),
      tc)

analyze_test_case(fam, tc) ==
    CASE fam = "csv" -> csv_analyze_test_case(tc)
      [] fam = "html" -> html_analyze_test_case(tc)
      [] fam = "att" -> att_analyze_test_case(tc)

----------------------------------------------------------------------------
(* The repair families as pure functions of one text *)

Families == {"csv", "html", "att"}

\* what the family's repair function returns for t
repair(fam, t) ==
    CASE fam = "csv" -> fix_text(t)
      [] fam = "html" -> strip_html_tags(t)
      [] fam = "att" -> remove_attachment_references(t)

\* the text a leaf holds after one repair pass over t whose result was r:
\* fix_text reports "no change" as None, the two others return the text
repaired(fam, t, r) == IF fam = "csv" /\ r = None THEN t ELSE r

MaxFrags == 3

CsvBody == <<"[", "a", ".", "c", "s", "v", "]", "(", "u", ")">>
CsvEscBody ==
    <<"\\", "[", "a", "\\", ".", "c", "s", "v", "\\", "]", "\\", "(", "u", "\\", ")">>
AttRef == AttachmentOpen \o <<"u", ")">>
AttHead == <<"!", "[", "a", "t", "t", "a", "c", "h">>
AttTail == <<"m", "e", "n", "t", "]", "(", "u", ")">>
AttGetOne == AttachmentGet \o <<"1", ")">>

Fragments(fam) ==
    CASE fam = "csv" -> {<<"!">>, <<"\\">>, CsvBody, CsvEscBody, <<"x">>}
      [] fam = "att" -> {AttRef, AttHead, AttTail, <<"[">>, AttGetOne, <<" ">>, <<"\n">>, <<"x">>}
      [] fam = "html" -> {<<"<", "p", ">">>, <<"<">>, <<">">>, <<"a">>, <<" ">>, <<"\n">>, <<"\t">>,
                          <<"\n", "\n", "\n">>}

\* P and every extension of an element of P by one element of F
Extend(P, F) == P \cup {p \o f : p \in P, f \in F}

\* every concatenation of at most n fragments
RECURSIVE Concats(_, _)
Concats(F, n) == IF n = 0 THEN {<<>>} ELSE Extend(Concats(F, n - 1), F)

\* the fully-escaped reference \!\[data\_1\.csv\]\(http\:\/\/x\/y\)
EscapedExample ==
    <<"\\", "!", "\\", "[", "d", "a", "t", "a", "\\", "_", "1", "\\", ".", "c", "s",
      "v", "\\", "]", "\\", "(", "h", "t", "t", "p", "\\", ":", "\\", "/", "\\", "/",
      "x", "\\", "/", "y", "\\", ")">>

\* a !b[readme.csv](http://x/y) c: a '!' that is not followed by '['
BangExample ==
    <<"a", " ", "!", "b", "[", "r", "e", "a", "d", "m", "e", ".", "c", "s", "v", "]",
      "(", "h", "t", "t", "p", ":", "/", "/", "x", "/", "y", ")", " ", "c">>

\* a ![readme.csv](http://x/y) c: the unescaped-bang form
BangReference ==
    <<"a", " ", "!", "[", "r", "e", "a", "d", "m", "e", ".", "c", "s", "v", "]", "(",
      "h", "t", "t", "p", ":", "/", "/", "x", "/", "y", ")", " ", "c">>

\* \![a.csv](u) ![a.csv](u): one reference in escaped-bang and in unescaped-bang form
MixedExample == <<"\\", "!">> \o CsvBody \o <<" ", "!">> \o CsvBody

\* ![a.csvx](u): the name goes on after '.csv'
SuffixExample == <<"!", "[", "a", ".", "c", "s", "v", "x", "]", "(", "u", ")">>

\* the fully-escaped reference \!\[a\.png\]\(p\)
EscapedPng ==
    <<"\\", "!", "\\", "[", "a", "\\", ".", "p", "n", "g", "\\", "]", "\\", "(", "p", "\\", ")">>

\* a fully-escaped reference to a file that is no CSV file, then one to b.csv
PrecedingExample ==
    EscapedPng \o
      <<" ", "\\", "!", "\\", "[", "b", "\\", ".", "c", "s", "v", "\\", "]", "\\", "(", "u", "\\", ")">>

\* \!\[a\\_b\.csv\]\(u\\/v\): an escaped backslash before '_' and before '/'
DoubleEscapeExample ==
    <<"\\", "!", "\\", "[", "a", "\\", "\\", "_", "b", "\\", ".", "c", "s", "v", "\\", "]", "\\", "(", "u", "\\", "\\", "/", "v", "\\", ")">>

\* <p>Step  one</p>, three newlines, <p>Step two</p>
HtmlExample ==
    <<"<", "p", ">", "S", "t", "e", "p", " ", " ", "o", "n", "e", "<", "/", "p", ">", "\n", "\n", "\n", "<", "p", ">", "S", "t", "e", "p", " ", "t", "w", "o", "<", "/", "p", ">">>

\* whole texts given to the repair besides the concatenations of fragments
Examples(fam) ==
    IF fam = "csv"
    THEN {EscapedExample, BangExample, BangReference, MixedExample, SuffixExample,
          PrecedingExample, DoubleEscapeExample}
    ELSE IF fam = "html" THEN {HtmlExample} ELSE {}

Texts(fam) == Concats(Fragments(fam), MaxFrags) \cup {None} \cup Examples(fam)

ZeroStats == [needs_fixing |-> 0, fixed |-> 0, errors |-> 0, skipped |-> 0]

\* NUM_WORKERS of delete_attachments_by_size.py (10 in the script), scaled down
NUM_WORKERS == 2

Workers == 1..NUM_WORKERS

\* ProgressCounter.__init__
ZeroCounter == [deleted |-> 0, failed |-> 0, total |-> 0]

\* a pool thread waiting for a task
IdleWorker == [pc |-> "idle", task |-> 0, success |-> FALSE, read |-> 0]

PoolIdle ==
    /\ attachments = <<>> /\ queue = <<>> /\ workers = [w \in Workers |-> IdleWorker]
    /\ custom_fields = <<>> /\ answer = None
    /\ lock = 0 /\ counter = ZeroCounter /\ deletions = <<>> /\ completed = 0
    /\ mainpc = "off"

DriverIdle ==
    /\ dry_run = FALSE /\ test_cases = <<>> /\ idx = 0 /\ pc = "off"
    /\ server = <<>> /\ offset = 0 /\ requested = <<>> /\ fetch_failed = FALSE
    /\ updates = EmptyDict /\ stats = ZeroStats /\ log = <<>>

InitText ==
    /\ family \in Families
    /\ text \in Texts(family)
    /\ once = None /\ twice = None /\ tpc = "input"
    /\ DriverIdle
    /\ PoolIdle
    /\ LinkIdle

RepairOnce ==
    /\ tpc = "input"
    /\ once' = repair(family, text)
    /\ tpc' = "once"
    /\ UNCHANGED <<text, twice>>
    /\ UNCHANGED <<driverVars, poolVars, linkVars>>

RepairTwice ==
    /\ tpc = "once"
    /\ twice' = repair(family, repaired(family, text, once))
    /\ tpc' = "twice"
    /\ UNCHANGED <<text, once>>
    /\ UNCHANGED <<driverVars, poolVars, linkVars>>

NextText == RepairOnce \/ RepairTwice

SpecText == InitText /\ [][NextText]_vars

----------------------------------------------------------------------------
(* Inputs of the analysis: records built from step templates.  A template   *)
(* is a step without its identifiers; MkStep numbers the steps of a list    *)
(* with their position and gives a hash to the templates that ask for one.  *)

MaxSteps == 2
MaxDepth == 2
MaxFields == 2

\* texts the family's repair changes: the first is emptied by the html and att
\* repairs, the second keeps text
Broken(fam) ==
    CASE fam = "csv" -> {<<"!">> \o CsvBody, <<"\\", "!">> \o CsvBody}
      [] fam = "html" -> {<<"<", "p", ">">>, <<"<", "p", ">", "a">>}
      [] fam = "att" -> {AttRef, <<"a", " ">> \o AttRef}

BrokenText(fam) ==
    CASE fam = "csv" -> <<"!">> \o CsvBody
      [] fam = "html" -> <<"<", "p", ">", "a">>
      [] fam = "att" -> <<"a", " ">> \o AttRef

\* a leaf that is one whole reference or tag
Emptying(fam) ==
    CASE fam = "csv" -> <<"\\", "!">> \o CsvBody
      [] fam = "html" -> <<"<", "p", ">">>
      [] fam = "att" -> AttRef

\* a text without any reference or tag, with a run of two spaces
Spaced == <<"a", " ", " ", "b">>

LeafTexts(fam) == {None, <<>>, <<" ">>, <<"a">>, Spaced} \cup Broken(fam)

Leaf(a, e, d, h) ==
    [action |-> a, expected_result |-> e, data |-> d, hashed |-> h, kids |-> <<>>]

Parent(kids) ==
    [action |-> <<"a">>, expected_result |-> None, data |-> None, hashed |-> TRUE,
     kids |-> kids]

PlainLeaf == Leaf(<<"a">>, None, None, TRUE)

TopLeaves(fam) ==
    {Leaf(a, None, None, TRUE) : a \in LeafTexts(fam)}
      \cup {Leaf(<<"a">>, BrokenText(fam), None, TRUE),
            Leaf(<<"a">>, None, BrokenText(fam), TRUE),
            Leaf(<<"a">>, <<"e">>, <<"d">>, TRUE),
            Leaf(<<"a">>, None, None, FALSE)}

KidLeaves(fam) ==
    {Leaf(a, None, None, TRUE) : a \in {<<>>} \cup Broken(fam)}
      \cup {Leaf(<<"a">>, BrokenText(fam), None, TRUE),
            Leaf(<<"a">>, None, BrokenText(fam), TRUE)}

\* the nested steps a parent may hold, down to depth d below it
RECURSIVE Kids(_, _)
Kids(fam, d) ==
    IF d <= 1 THEN KidLeaves(fam)
    ELSE KidLeaves(fam) \cup {Parent(<<k>>) : k \in Kids(fam, d - 1)}

StepTemplates(fam) ==
    TopLeaves(fam)
      \cup {Parent(<<k>>) : k \in Kids(fam, MaxDepth)}
      \cup {Parent(<<PlainLeaf, k>>) : k \in KidLeaves(fam)}

RECURSIVE MkStep(_, _, _)
MkNested(t, i, base, hashed) ==
    IF t.kids # <<>>
    THEN Put(hashed, "steps", [n \in 1..Len(t.kids) |-> MkStep(t.kids[n], n, 10 * base + i)])
    ELSE hashed

MkHashed(t, i, base, core) ==
    MkNested(t, i, base, IF t.hashed THEN Put(core, "hash", 10 * base + i) ELSE core)

MkStep(t, i, base) ==
    MkHashed(t, i, base,
             [position |-> i, action |-> t.action,
              expected_result |-> t.expected_result, data |-> t.data])

MkSteps(ts) == [n \in 1..Len(ts) |-> MkStep(ts[n], n, 0)]

\* P and every extension of an element of P by one element of S
Longer(P, S) == P \cup {Append(p, x) : p \in P, x \in S}

\* every sequence over S of length at most n
RECURSIVE SeqsUpTo(_, _)
SeqsUpTo(S, n) == IF n = 0 THEN {<<>>} ELSE Longer(SeqsUpTo(S, n - 1), S)

MkCase(d, pre, post, steps, fields) ==
    [id |-> 1, description |-> d, preconditions |-> pre, postconditions |-> post,
     steps |-> steps, custom_fields |-> fields]

FieldSet(fam) ==
    {[id |-> 7, value |-> v] : v \in {None, <<"a">>} \cup Broken(fam)}
      \cup {[value |-> BrokenText(fam)], [id |-> 8, value |-> BrokenText(fam)]}

\* the field ids of a record are distinct
DistinctIds(fs) ==
    \A m, n \in 1..Len(fs) :
        (m # n /\ "id" \in DOMAIN fs[m] /\ "id" \in DOMAIN fs[n]) => fs[m].id # fs[n].id

FieldLists(fam) == {fs \in SeqsUpTo(FieldSet(fam), MaxFields) : DistinctIds(fs)}

ScalarTriples(fam) ==
    {<<d, None, None>> : d \in {None, <<"a">>, Spaced, BrokenText(fam)}}
      \cup {<<None, BrokenText(fam), None>>, <<None, None, BrokenText(fam)>>,
            <<<<"a">>, BrokenText(fam), BrokenText(fam)>>}

\* the steps that follow the first step of a list
LaterSteps(fam) ==
    {PlainLeaf, Leaf(<<>>, None, None, TRUE), Leaf(Emptying(fam), None, None, TRUE),
     Leaf(Spaced, None, None, TRUE), Leaf(<<"a">>, BrokenText(fam), None, FALSE),
     Parent(<<Leaf(BrokenText(fam), None, None, TRUE)>>)}

\* the step lists: any template first, then at most MaxSteps - 1 later steps
StepLists(fam) ==
    {<<>>} \cup {<<t>> \o r : t \in StepTemplates(fam),
                              r \in SeqsUpTo(LaterSteps(fam), MaxSteps - 1)}

\* records that vary the step list, and records that vary the scalar fields and
\* the custom fields
AnalysisCases(fam) ==
    {MkCase(None, None, None, MkSteps(ts), <<>>) : ts \in StepLists(fam)}
      \cup {MkCase(t[1], t[2], t[3], MkSteps(ts), fs) :
              t \in ScalarTriples(fam),
              ts \in {<<>>, <<Leaf(BrokenText(fam), None, None, TRUE)>>},
              fs \in FieldLists(fam)}

----------------------------------------------------------------------------
(* The reconciliation drivers: CSVFixer.process_all_cases, and main of       *)
(* fix_html_tags.py and of remove_attachment_references.py.  The counter     *)
(* needs_fixing is has_html and has_references in the two scripts.           *)

MaxCases == 2

TextIdle == text = None /\ once = None /\ twice = None /\ tpc = "off"

Marker == "Action field is required"

\* `"Action field is required" in str(err)` for the messages of Responses
ContainsMarker(msg) == msg \in {Marker, "steps.0.action: Action field is required."}

\* What the server may answer to a PATCH.  kind "ok": a 2xx response; "http":
\* raise_for_status() raises HTTPError carrying the response; "transport": a
\* RequestException without a response.  body is what response.json() gives:
\* json FALSE stands for a body that is no JSON (ValueError).
ErrBody(errors) == [json |-> TRUE, errors |-> errors]

Responses ==
    { [kind |-> "ok", status |-> 200, body |-> ErrBody(EmptyDict)],
      [kind |-> "http", status |-> 422,
       body |-> ErrBody([k \in {"steps.0.action"} |-> [type |-> "list", items |-> <<Marker>>]])],
      [kind |-> "http", status |-> 422,
       body |-> ErrBody([k \in {"steps"} |->
                  [type |-> "str", items |-> <<"steps.0.action: Action field is required.">>]])],
      [kind |-> "http", status |-> 422,
       body |-> ErrBody([k \in {"title"} |->
                  [type |-> "list", items |-> <<"The title field is required.">>]])],
      [kind |-> "http", status |-> 422, body |-> [json |-> FALSE, errors |-> EmptyDict]],
      [kind |-> "http", status |-> 500,
       body |-> ErrBody([k \in {"steps.0.action"} |-> [type |-> "list", items |-> <<Marker>>]])],
      [kind |-> "transport", status |-> 0, body |-> [json |-> FALSE, errors |-> EmptyDict]] }

\* `e.response` in a condition: requests.Response.__bool__ is Response.ok, which is
\* False for every status raise_for_status() raises on (400..599)
ResponseTruthy(resp) == resp.kind # "transport" /\ resp.status < 400

\* the loop over errors.items() that sets has_action_error
has_action_error(errors) ==
    \E k \in DOMAIN errors :
        /\ errors[k].type \in {"list", "str"}
        /\ \E n \in 1..Len(errors[k].items) : ContainsMarker(errors[k].items[n])

Success(message, sent) == [success |-> TRUE, message |-> message, sent |-> sent]
Failure(message, sent) == [success |-> FALSE, message |-> message, sent |-> sent]

\* QaseAPI.update_test_case: one PATCH, True on 2xx, False on any RequestException
update_test_case(upd, resp) ==
    IF resp.kind = "ok" THEN Success("Success", <<upd>>) ELSE Failure("error", <<upd>>)

\* updates["steps"] = [ensure_step_has_action(step) for step in updates["steps"]]
patched(upd) ==
    Put(upd, "steps", [n \in 1..Len(upd.steps) |-> ensure_step_has_action(upd.steps[n])])

\* the retry with the fixed steps, answered by resp2
retry(upd, fixed, resp2) ==
    IF resp2.kind = "ok"
    THEN Success("Success (patched empty actions)", <<upd, fixed>>)
    ELSE Failure("Failed after patching", <<upd, fixed>>)

\* a driver that patches and retries after any rejection of a payload with steps
retry_after_any_rejection(upd, resp1, resp2) ==
    IF resp1.kind = "ok" THEN Success("Success", <<upd>>)
    ELSE IF "steps" \in DOMAIN upd THEN retry(upd, patched(upd), resp2)
    ELSE Failure("error", <<upd>>)

\* update_test_case_with_retry: resp1 answers the first PATCH, resp2 the retry
update_test_case_with_retry(upd, resp1, resp2) ==
    IF resp1.kind = "ok" THEN Success("Success", <<upd>>)
    ELSE IF /\ resp1.kind = "http"
            /\ ResponseTruthy(resp1) /\ resp1.status = 422
            /\ resp1.body.json
            /\ has_action_error(resp1.body.errors) /\ "steps" \in DOMAIN upd
         THEN retry(upd, patched(upd), resp2)
         ELSE Failure("error", <<upd>>)

\* the call the live branch of the family's loop makes
submit(fam, upd, resp1, resp2) ==
    IF fam = "att" THEN update_test_case_with_retry(upd, resp1, resp2)
    ELSE update_test_case(upd, resp1)

\* a loop that takes the update branch for every record
always_update(upd) == TRUE

\* `if updates:`
NeedsUpdate(upd) == DOMAIN upd # {}

\* a loop that takes the live branch whatever the flag
always_live(dry) == TRUE

\* `if not dry_run:` / `if not args.dry_run:`
live(dry) == ~dry

\* the records of the driver runs
DriverCases(fam) ==
    { MkCase(<<"a">>, None, None, MkSteps(<<PlainLeaf>>), <<>>),
      MkCase(BrokenText(fam), None, None, <<>>, <<>>),
      MkCase(None, None, None,
             MkSteps(<<Leaf(Emptying(fam), None, None, TRUE), PlainLeaf>>), <<>>) }

Numbered(cases) == [n \in 1..Len(cases) |-> Put(cases[n], "id", n)]

\* self.max_limit, the page size of get_all_test_cases (100 in the client),
\* scaled down so that a list spans several pages
max_limit == 1

Bump(st, key) == [st EXCEPT ![key] = @ + 1]

\* what the run did with record i: the payload, the PATCH bodies sent, the
\* answers received, and the change of each counter
Entry(i, upd, sent, outcome, received, before, after) ==
    [case |-> test_cases[i].id, payload |-> upd, sent |-> sent,
     received |-> received, outcome |-> outcome,
     counted |-> [k \in DOMAIN before |-> after[k] - before[k]]]

Init ==
    /\ family \in Families
    /\ dry_run \in BOOLEAN
    /\ server \in {Numbered(cs) : cs \in SeqsUpTo(DriverCases(family), MaxCases)}
    /\ offset = 0
    /\ requested = <<>>
    /\ fetch_failed = FALSE
    /\ test_cases = <<>>
    /\ idx = 0
    /\ pc = "fetch"
    /\ updates = EmptyDict
    /\ stats = ZeroStats
    /\ log = <<>>
    /\ TextIdle
    /\ PoolIdle
    /\ LinkIdle

\* the page the API serves at offset off
Page(off) == SubSeq(server, off + 1, Min({off + max_limit, Len(server)}))

\* `if offset + count >= total or len(entities) == 0: break`
last_page(off, entities, count, total) == off + count >= total \/ Len(entities) = 0

\* a page has arrived with the entities, count and total of its result:
\* `all_cases.extend(entities)`, then leave the loop or `offset += count`
page_fetched(entities, count, total) ==
    /\ test_cases' = test_cases \o entities
    /\ offset' = IF last_page(offset, entities, count, total) THEN offset ELSE offset + count
    /\ pc' = IF last_page(offset, entities, count, total) THEN "start" ELSE "fetch"
    /\ UNCHANGED fetch_failed

\* RequestException or `status` false: a message is printed, `break`, and
\* get_all_test_cases returns what it has collected so far
page_failed ==
    /\ fetch_failed' = TRUE
    /\ pc' = "start"
    /\ UNCHANGED <<test_cases, offset>>

FetchAnswers == {"ok", "status_false", "error"}

\* one iteration of the while loop of get_all_test_cases, with a server that
\* reports the count of the page and the total of the project
FetchPage ==
    /\ pc = "fetch"
    /\ requested' = Append(requested, offset)
    /\ \E reply \in FetchAnswers :
         IF reply = "ok"
         THEN page_fetched(Page(offset), Len(Page(offset)), Len(server))
         ELSE page_failed
    /\ UNCHANGED <<family, dry_run, server, idx, updates, stats, log>>
    /\ UNCHANGED <<textVars, poolVars, linkVars>>

\* the statistics are set up and the loop is entered; main of
\* remove_attachment_references.py returns at once on an empty list
StartRun ==
    /\ pc = "start"
    /\ pc' = IF family = "att" /\ test_cases = <<>> THEN "done" ELSE "loop"
    /\ idx' = 1
    /\ stats' = ZeroStats
    /\ UNCHANGED <<family, dry_run, test_cases, updates, log>>
    /\ UNCHANGED <<fetchVars, textVars, poolVars, linkVars>>

\* the records a driver run may fetch
DriverRecords(fam) == {Put(c, "id", n) : c \in DriverCases(fam), n \in 1..MaxCases}

\* analyze_test_case tabulated over the records of the driver runs, so that the
\* payload of a record is computed once
Payloads ==
    [fam \in Families |-> [tc \in DriverRecords(fam) |-> analyze_test_case(fam, tc)]]

\* analyze_test_case(tc), read from the table when tc is in it
analysis(fam, tc) ==
    IF tc \in DOMAIN Payloads[fam] THEN Payloads[fam][tc] ELSE analyze_test_case(fam, tc)

\* updates = analyze_test_case(test_case)
Analyze ==
    /\ pc = "loop" /\ idx <= Len(test_cases)
    /\ updates' = analysis(family, test_cases[idx])
    /\ pc' = "analyzed"
    /\ UNCHANGED <<family, dry_run, test_cases, idx, stats, log>>
    /\ UNCHANGED <<fetchVars, textVars, poolVars, linkVars>>

\* the counters after a record without updates: only the html and att scripts count it
skip_stats(fam, st) == IF fam = "csv" THEN st ELSE Bump(st, "skipped")

Skip ==
    /\ pc = "analyzed" /\ ~NeedsUpdate(updates)
    /\ stats' = skip_stats(family, stats)
    /\ log' = Append(log, Entry(idx, updates, <<>>, "skipped", <<>>, stats, stats'))
    /\ idx' = idx + 1
    /\ pc' = "loop"
    /\ UNCHANGED <<family, dry_run, test_cases, updates>>
    /\ UNCHANGED <<fetchVars, textVars, poolVars, linkVars>>

\* the dry-run branch: counted as fixed, nothing sent
DryRun ==
    /\ pc = "analyzed" /\ NeedsUpdate(updates) /\ ~live(dry_run)
    /\ stats' = Bump(Bump(stats, "needs_fixing"), "fixed")
    /\ log' = Append(log, Entry(idx, updates, <<>>, "fixed", <<>>, stats, stats'))
    /\ idx' = idx + 1
    /\ pc' = "loop"
    /\ UNCHANGED <<family, dry_run, test_cases, updates>>
    /\ UNCHANGED <<fetchVars, textVars, poolVars, linkVars>>

\* counters that leave a failed submission out of needs_fixing
uncounted_failure(st, success) ==
    IF success THEN Bump(Bump(st, "needs_fixing"), "fixed") ELSE Bump(st, "errors")

\* the counters after a submission
submit_stats(st, success) ==
    Bump(Bump(st, "needs_fixing"), IF success THEN "fixed" ELSE "errors")

\* a loop that a failed submission would end
abort_on_failure(i, result) == IF result.success THEN i + 1 ELSE Len(test_cases) + 1

\* where the loop goes after a submission: on to the next record
after_submit(i, result) == i + 1

\* the answers the run received for the PATCHes it sent
Received(result, resp1, resp2) ==
    IF Len(result.sent) = 2 THEN <<resp1, resp2>> ELSE <<resp1>>

\* the rest of the loop body once the submission has returned result; the retry
\* of update_test_case_with_retry leaves its patched steps in updates
Submitted(result, received) ==
    /\ stats' = submit_stats(stats, result.success)
    /\ log' = Append(log, Entry(idx, updates, result.sent,
                                IF result.success THEN "fixed" ELSE "error",
                                received, stats, stats'))
    /\ updates' = result.sent[Len(result.sent)]
    /\ idx' = after_submit(idx, result)

Submit ==
    /\ pc = "analyzed" /\ NeedsUpdate(updates) /\ live(dry_run)
    /\ \E resp1 \in Responses, resp2 \in Responses :
         Submitted(submit(family, updates, resp1, resp2),
                   Received(submit(family, updates, resp1, resp2), resp1, resp2))
    /\ pc' = "loop"
    /\ UNCHANGED <<family, dry_run, test_cases>>
    /\ UNCHANGED <<fetchVars, textVars, poolVars, linkVars>>

Finish ==
    /\ pc = "loop" /\ idx > Len(test_cases)
    /\ pc' = "done"
    /\ UNCHANGED <<family, dry_run, test_cases, idx, updates, stats, log>>
    /\ UNCHANGED <<fetchVars, textVars, poolVars, linkVars>>

Next == FetchPage \/ StartRun \/ Analyze \/ Skip \/ DryRun \/ Submit \/ Finish

Spec == Init /\ [][Next]_vars

\* the loop is sequential code: a step that can be taken is taken
FairSpec == Spec /\ WF_vars(Next)

----------------------------------------------------------------------------
(* The analysis alone, over a wider set of records *)

InitAnalysis ==
    /\ family \in Families
    /\ dry_run = FALSE
    /\ test_cases \in {<<c>> : c \in AnalysisCases(family)}
    /\ server = test_cases /\ offset = 0 /\ requested = <<0>> /\ fetch_failed = FALSE
    /\ idx = 1
    /\ pc = "loop"
    /\ updates = EmptyDict
    /\ stats = ZeroStats
    /\ log = <<>>
    /\ TextIdle
    /\ PoolIdle
    /\ LinkIdle

SpecAnalysis == InitAnalysis /\ [][Analyze]_vars

----------------------------------------------------------------------------
(* get_all_test_cases alone, with a server that may report any count and total *)

MaxTotal == 3

\* page requests after which the loop is no longer followed; with distinct
\* offsets below the reported totals the loop sends at most MaxTotal + 1 requests
MaxRequests == MaxTotal + 2

InitFetch ==
    /\ family \in Families
    /\ dry_run = FALSE
    /\ server \in {Numbered(cs) : cs \in SeqsUpTo(DriverCases(family), MaxCases)}
    /\ offset = 0
    /\ requested = <<>>
    /\ fetch_failed = FALSE
    /\ test_cases = <<>>
    /\ idx = 0
    /\ pc = "fetch"
    /\ updates = EmptyDict
    /\ stats = ZeroStats
    /\ log = <<>>
    /\ TextIdle
    /\ PoolIdle
    /\ LinkIdle

\* one iteration of the while loop of get_all_test_cases: the result of the
\* response holds some page of the project and any count and total
FetchAnyPage ==
    /\ pc = "fetch" /\ Len(requested) < MaxRequests
    /\ requested' = Append(requested, offset)
    /\ \E reply \in FetchAnswers :
         IF reply = "ok"
         THEN \E off \in 0..Len(server), count \in 0..max_limit, total \in 0..MaxTotal :
                 page_fetched(Page(off), count, total)
         ELSE page_failed
    /\ UNCHANGED <<family, dry_run, server, idx, updates, stats, log>>
    /\ UNCHANGED <<textVars, poolVars, linkVars>>

SpecFetch == InitFetch /\ [][FetchAnyPage]_vars

\* the loop is sequential code: the next request is sent
FairFetch == SpecFetch /\ WF_vars(FetchAnyPage)

----------------------------------------------------------------------------
(* delete_attachments_by_size.py: main and the pool of deletion workers *)

MaxAttachments == 3

TARGET_SIZE == 157010

Sizes == {TARGET_SIZE, 1}

\* what get_all_attachments may return; the hashes are distinct
AttachmentLists ==
    UNION {{[i \in 1..n |-> [hash |-> i, size |-> f[i]]] : f \in [1..n -> Sizes]} :
           n \in 0..MaxAttachments}

HasTargetSize(att) == att.size = TARGET_SIZE

\* `[att for att in all_attachments if att.get("size") == TARGET_SIZE]`
matching_attachments(all_attachments) == SelectSeq(all_attachments, HasTargetSize)

\* worker_args, in the order in which executor.submit queues them
worker_args(matching) == [n \in 1..Len(matching) |-> matching[n].hash]

\* the tally that a deletion increments
tally(success) == IF success THEN "deleted" ELSE "failed"

MaxCustomFields == 2

\* what get_all_custom_fields may return: the ids are distinct
CustomFieldLists == {[i \in 1..n |-> i] : n \in 0..MaxCustomFields}

DeleteScripts == {"delete_attachments_by_size", "delete_custom_fields"}

Lower(c) ==
    CASE c = "Y" -> "y" [] c = "E" -> "e" [] c = "S" -> "s"
      [] c = "N" -> "n" [] c = "O" -> "o" [] OTHER -> c

\* str.lower
lower(t) == [n \in 1..Len(t) |-> Lower(t[n])]

\* what the operator may type at the prompt
Answers ==
    {<<"y", "e", "s">>, <<"Y", "E", "S">>, <<"n", "o">>, <<"y">>, <<>>,
     <<" ", "y", "e", "s">>}

\* a prompt that takes everything but "no" for a confirmation
not_refused(typed) == typed # <<"n", "o">>

\* `if response.lower() != "yes": ... return` does not return
confirmed(typed) == lower(typed) = <<"y", "e", "s">>

InitPool ==
    /\ family \in DeleteScripts
    /\ attachments \in
         IF family = "delete_attachments_by_size" THEN AttachmentLists ELSE {<<>>}
    /\ custom_fields \in
         IF family = "delete_custom_fields" THEN CustomFieldLists ELSE {<<>>}
    /\ answer = None
    /\ queue = <<>> /\ workers = [w \in Workers |-> IdleWorker]
    /\ lock = 0 /\ counter = ZeroCounter /\ deletions = <<>> /\ completed = 0
    /\ mainpc = "start"
    /\ DriverIdle
    /\ TextIdle
    /\ LinkIdle

\* main up to the submission of the tasks: it returns when nothing matches and
\* when the operator does not answer "yes"
StartDeletion ==
    /\ mainpc = "start" /\ family = "delete_attachments_by_size"
    /\ \E typed \in Answers :
         IF matching_attachments(attachments) = <<>>
         THEN mainpc' = "done" /\ UNCHANGED <<answer, counter, queue>>
         ELSE IF ~confirmed(typed)
         THEN mainpc' = "cancelled" /\ answer' = typed /\ UNCHANGED <<counter, queue>>
         ELSE /\ mainpc' = "pool"
              /\ answer' = typed
              /\ counter' = [ZeroCounter EXCEPT
                              !.total = Len(matching_attachments(attachments))]
              /\ queue' = worker_args(matching_attachments(attachments))
    /\ UNCHANGED <<attachments, custom_fields, workers, lock, deletions, completed>>
    /\ UNCHANGED <<driverVars, textVars, linkVars>>

\* main of delete_custom_fields.py up to its loop: it returns when there is no
\* custom field and when the operator does not answer "yes"
StartFieldDeletion ==
    /\ mainpc = "start" /\ family = "delete_custom_fields"
    /\ \E typed \in Answers :
         IF custom_fields = <<>>
         THEN mainpc' = "done" /\ UNCHANGED answer
         ELSE /\ answer' = typed
              /\ mainpc' = IF confirmed(typed) THEN "loop" ELSE "cancelled"
    /\ UNCHANGED <<attachments, custom_fields, queue, workers, lock, counter, deletions,
                   completed>>
    /\ UNCHANGED <<driverVars, textVars, linkVars>>

\* one turn of the loop of delete_custom_fields.py: delete_custom_field sends
\* one DELETE request, and deleted_count or failed_count is incremented
DeleteField ==
    /\ mainpc = "loop" /\ Len(deletions) < Len(custom_fields)
    /\ deletions' = Append(deletions, custom_fields[Len(deletions) + 1])
    /\ \E success \in BOOLEAN :
         counter' = [counter EXCEPT ![tally(success)] = @ + 1]
    /\ UNCHANGED <<attachments, custom_fields, answer, queue, workers, lock, completed,
                   mainpc>>
    /\ UNCHANGED <<driverVars, textVars, linkVars>>

\* the loop of delete_custom_fields.py is over; the summary is printed
FinishFieldDeletion ==
    /\ mainpc = "loop" /\ Len(deletions) = Len(custom_fields)
    /\ mainpc' = "done"
    /\ UNCHANGED <<attachments, custom_fields, answer, queue, workers, lock, counter,
                   deletions, completed>>
    /\ UNCHANGED <<driverVars, textVars, linkVars>>

\* a pool thread takes the next task from the work queue
Take(w) ==
    /\ mainpc = "pool" /\ workers[w].pc = "idle" /\ queue # <<>>
    /\ workers' = [workers EXCEPT ![w] = [@ EXCEPT !.pc = "delete", !.task = Head(queue)]]
    /\ queue' = Tail(queue)
    /\ UNCHANGED <<custom_fields, answer>>
    /\ UNCHANGED <<attachments, lock, counter, deletions, completed, mainpc>>
    /\ UNCHANGED <<driverVars, textVars, linkVars>>

\* delete_attachment: one DELETE request; True, or False on a RequestException
\* (main does not use the hash the worker returns, so the task is dropped here)
Delete(w) ==
    /\ workers[w].pc = "delete"
    /\ deletions' = Append(deletions, workers[w].task)
    /\ \E success \in BOOLEAN :
         workers' = [workers EXCEPT
                       ![w] = [@ EXCEPT !.pc = "acquire", !.task = 0, !.success = success]]
    /\ UNCHANGED <<custom_fields, answer>>
    /\ UNCHANGED <<attachments, queue, lock, counter, completed, mainpc>>
    /\ UNCHANGED <<driverVars, textVars, linkVars>>

\* a lock that any thread may take at any time
never_held(l) == TRUE

\* Lock.acquire goes through when no thread holds the lock
acquirable(l) == l = 0

\* `with self.lock:` of increment_deleted / increment_failed
Acquire(w) ==
    /\ workers[w].pc = "acquire" /\ acquirable(lock)
    /\ lock' = w
    /\ workers' = [workers EXCEPT ![w] = [@ EXCEPT !.pc = "read"]]
    /\ UNCHANGED <<custom_fields, answer>>
    /\ UNCHANGED <<attachments, queue, counter, deletions, completed, mainpc>>
    /\ UNCHANGED <<driverVars, textVars, linkVars>>

\* `self.deleted += 1`: the load
Read(w) ==
    /\ workers[w].pc = "read"
    /\ workers' = [workers EXCEPT ![w] =
                     [@ EXCEPT !.pc = "write",
                               !.read = counter[tally(workers[w].success)]]]
    /\ UNCHANGED <<custom_fields, answer>>
    /\ UNCHANGED <<attachments, queue, lock, counter, deletions, completed, mainpc>>
    /\ UNCHANGED <<driverVars, textVars, linkVars>>

\* `self.deleted += 1`: the store; the lock is released on leaving the with
\* block, the worker returns and its future completes
Write(w) ==
    /\ workers[w].pc = "write"
    /\ counter' = [counter EXCEPT ![tally(workers[w].success)] = workers[w].read + 1]
    /\ lock' = 0
    /\ workers' = [workers EXCEPT ![w] = IdleWorker]
    /\ UNCHANGED <<custom_fields, answer>>
    /\ UNCHANGED <<attachments, queue, deletions, completed, mainpc>>
    /\ UNCHANGED <<driverVars, textVars, linkVars>>

Busy == {w \in Workers : workers[w].pc # "idle"}

\* the futures that have completed
Finished == counter.total - Len(queue) - Cardinality(Busy)

\* the as_completed loop of main: one more future seen, get_progress under the lock
Progress ==
    /\ mainpc = "pool" /\ completed < Finished /\ acquirable(lock)
    /\ completed' = completed + 1
    /\ UNCHANGED <<custom_fields, answer>>
    /\ UNCHANGED <<attachments, queue, workers, lock, counter, deletions, mainpc>>
    /\ UNCHANGED <<driverVars, textVars, linkVars>>

\* leaving the `with ThreadPoolExecutor` block: every future has been seen and
\* the threads have been joined; the summary is printed
Shutdown ==
    /\ mainpc = "pool" /\ completed = counter.total /\ Busy = {}
    /\ mainpc' = "done"
    /\ UNCHANGED <<custom_fields, answer>>
    /\ UNCHANGED <<attachments, queue, workers, lock, counter, deletions, completed>>
    /\ UNCHANGED <<driverVars, textVars, linkVars>>

WorkerStep(w) == Take(w) \/ Delete(w) \/ Acquire(w) \/ Read(w) \/ Write(w)

NextPool ==
    \/ StartDeletion \/ (\E w \in Workers : WorkerStep(w)) \/ Progress \/ Shutdown
    \/ StartFieldDeletion \/ DeleteField \/ FinishFieldDeletion

SpecPool == InitPool /\ [][NextPool]_vars

\* the threads of the pool and the main thread keep being scheduled
FairPool == SpecPool /\ WF_vars(NextPool)

----------------------------------------------------------------------------
(* field_migration.py: the system field 'preconditions' is moved to the       *)
(* custom field 7 of each record                                               *)

\* the custom field of a record that the migration writes to
destination_field(v) == [id |-> 7, value |-> v]

MigrationRecord(source_value, current) ==
    [preconditions |-> source_value, custom_fields |-> <<destination_field(current)>>]

SourceValues == {None, <<>>, <<" ">>, <<"a">>, <<" ", "b", " ">>}

MigrationRecords ==
    {MigrationRecord(v, current) : v \in SourceValues, current \in {<<>>, <<"o">>}}

\* `if not source_value or not source_value.strip(): return None`
blank_source(source_value) == ~Truthy(source_value) \/ strip(source_value) = <<>>

\* a payload that carries the trimmed source value
trimmed_copy(source_value) ==
    [custom_field |-> [k \in {str(7)} |-> strip(source_value)], preconditions |-> <<>>]

\* `updates = {"custom_field": {str(self.destination_field_id): source_value},
\*             self.source_field_slug: ""}`
migration_updates(source_value) ==
    [custom_field |-> [k \in {str(7)} |-> source_value], preconditions |-> <<>>]

\* QaseFieldMigration.analyze_test_case; its None is the empty dict here, which
\* `if updates:` does not tell apart from it
migration_analyze(tc) ==
    IF blank_source(Get(tc, "preconditions")) THEN EmptyDict
    ELSE migration_updates(tc.preconditions)

ZeroMigrationStats == [needs_migration |-> 0, migrated |-> 0, errors |-> 0, skipped |-> 0]

\* the record after the API has applied the PATCH body to it
apply_patch(rec, body) ==
    [rec EXCEPT !.preconditions = body.preconditions,
                !.custom_fields = <<destination_field(body.custom_field[str(7)])>>]

InitMigration ==
    /\ family = "migration"
    /\ dry_run \in BOOLEAN
    /\ server \in {Numbered(cs) : cs \in SeqsUpTo(MigrationRecords, MaxCases)}
    /\ test_cases = server
    /\ offset = 0 /\ requested = <<0>> /\ fetch_failed = FALSE
    /\ idx = 1
    /\ pc = "loop"
    /\ updates = EmptyDict
    /\ stats = ZeroMigrationStats
    /\ log = <<>>
    /\ TextIdle
    /\ PoolIdle
    /\ LinkIdle

\* updates = self.analyze_test_case(test_case)
MigrationAnalyze ==
    /\ pc = "loop" /\ idx <= Len(test_cases)
    /\ updates' = migration_analyze(test_cases[idx])
    /\ pc' = "analyzed"
    /\ UNCHANGED <<family, dry_run, test_cases, idx, stats, log>>
    /\ UNCHANGED <<fetchVars, textVars, poolVars, linkVars>>

\* the else branch of `if updates:`; its skipped counter is for a record with a
\* source value, which analyze_test_case never leaves without updates
MigrationSkip ==
    /\ pc = "analyzed" /\ updates = EmptyDict
    /\ stats' = IF blank_source(Get(test_cases[idx], "preconditions")) THEN stats
                 ELSE Bump(stats, "skipped")
    /\ idx' = idx + 1
    /\ pc' = "loop"
    /\ UNCHANGED <<family, dry_run, test_cases, updates, log>>
    /\ UNCHANGED <<fetchVars, textVars, poolVars, linkVars>>

\* the dry-run branch: counted as migrated, nothing sent
MigrationDryRun ==
    /\ pc = "analyzed" /\ updates # EmptyDict /\ dry_run
    /\ stats' = Bump(Bump(stats, "needs_migration"), "migrated")
    /\ idx' = idx + 1
    /\ pc' = "loop"
    /\ UNCHANGED <<family, dry_run, test_cases, updates, log>>
    /\ UNCHANGED <<fetchVars, textVars, poolVars, linkVars>>

\* `if self.api.update_test_case(case_id, updates):` one PATCH, which the API
\* applies to the record as a whole or rejects
MigrationSubmit ==
    /\ pc = "analyzed" /\ updates # EmptyDict /\ ~dry_run
    /\ \E ok \in BOOLEAN :
         /\ server' = IF ok THEN [server EXCEPT ![idx] = apply_patch(@, updates)]
                       ELSE server
         /\ stats' = Bump(Bump(stats, "needs_migration"), IF ok THEN "migrated" ELSE "errors")
         /\ log' = Append(log, [i |-> idx, sent |-> updates, ok |-> ok])
    /\ idx' = idx + 1
    /\ pc' = "loop"
    /\ UNCHANGED <<family, dry_run, test_cases, updates, offset, requested, fetch_failed>>
    /\ UNCHANGED <<textVars, poolVars, linkVars>>

MigrationFinish ==
    /\ pc = "loop" /\ idx > Len(test_cases)
    /\ pc' = "done"
    /\ UNCHANGED <<family, dry_run, test_cases, idx, updates, stats, log>>
    /\ UNCHANGED <<fetchVars, textVars, poolVars, linkVars>>

NextMigration ==
    \/ MigrationAnalyze \/ MigrationSkip \/ MigrationDryRun \/ MigrationSubmit
    \/ MigrationFinish

SpecMigration == InitMigration /\ [][NextMigration]_vars

----------------------------------------------------------------------------
(* link_jira_issues.py: JIRA issues named in the refs of the records are       *)
(* attached in batches, and the cases of a failed batch one by one             *)

MaxLinked == 3

\* self.batch_size
batch_size == 2

\* the reference strings that jira_pattern matches; each stands for a text that
\* holds that one issue id
JiraIds == {"AB-1", "CD-2"}

\* JIRAIssueExtractor._extract_jira_issue_ids
extract_jira_issue_ids(ref) == IF ref \in JiraIds THEN <<ref>> ELSE <<>>

\* `Return unique IDs, preserving order`
RECURSIVE unique_ids(_)
unique_ids(ids) ==
    IF ids = <<>> THEN <<>>
    ELSE LET front == unique_ids(SubSeq(ids, 1, Len(ids) - 1))
         IN  IF \E j \in 1..Len(front) : front[j] = ids[Len(ids)] THEN front
             ELSE Append(front, ids[Len(ids)])

RECURSIVE extract_all(_)
extract_all(refs_list) ==
    IF refs_list = <<>> THEN <<>>
    ELSE extract_jira_issue_ids(Head(refs_list)) \o extract_all(Tail(refs_list))

\* JIRAIssueExtractor.extract_from_test_case, the refs held in the system field
extract_from_test_case(tc) ==
    IF ~Truthy(Get(tc, "refs")) THEN <<>> ELSE unique_ids(extract_all(tc.refs))

RefLists == {None, <<"x">>, <<"AB-1">>, <<"AB-1", "CD-2", "AB-1">>}

ZeroLinkStats ==
    [total |-> 0, with_jira_issues |-> 0, total_jira_issues |-> 0,
     unique_jira_issues |-> {}, cases_attached |-> 0, batches_attached |-> 0,
     errors |-> 0, cases_with_refs |-> 0, cases_without_refs |-> 0]

InitLink ==
    /\ family = "link_jira_issues"
    /\ dry_run \in BOOLEAN
    /\ server \in {Numbered(cs) :
                    cs \in SeqsUpTo({[refs |-> r] : r \in RefLists}, MaxLinked)}
    /\ test_cases = server
    /\ offset = 0 /\ requested = <<0>> /\ fetch_failed = FALSE
    /\ idx = 1
    /\ pc = "collect"
    /\ updates = EmptyDict
    /\ stats = [ZeroLinkStats EXCEPT !.total = Len(server)]
    /\ log = <<>>
    /\ jira_links = <<>>
    /\ failed_batches = <<>>
    /\ TextIdle
    /\ PoolIdle

\* the counters of one record of the collecting loop
collect_stats(st, tc, jira_ids) ==
    [st EXCEPT !.cases_with_refs = IF Truthy(Get(tc, "refs")) THEN @ + 1 ELSE @,
               !.cases_without_refs = IF Truthy(Get(tc, "refs")) THEN @ ELSE @ + 1,
               !.with_jira_issues = IF jira_ids = <<>> THEN @ ELSE @ + 1,
               !.total_jira_issues = @ + Len(jira_ids),
               !.unique_jira_issues = @ \cup {jira_ids[j] : j \in 1..Len(jira_ids)}]

\* one pass of `for test_case in test_cases:`
Collect ==
    /\ pc = "collect" /\ idx <= Len(test_cases)
    /\ stats' = collect_stats(stats, test_cases[idx], extract_from_test_case(test_cases[idx]))
    /\ jira_links' =
         IF extract_from_test_case(test_cases[idx]) = <<>> THEN jira_links
         ELSE Append(jira_links,
                     [case_id |-> test_cases[idx].id,
                      external_issues |-> extract_from_test_case(test_cases[idx])])
    /\ idx' = idx + 1
    /\ UNCHANGED <<family, dry_run, test_cases, pc, updates, log, failed_batches>>
    /\ UNCHANGED <<fetchVars, textVars, poolVars>>

\* after the loop: `if not jira_links: return stats`, `if not dry_run:`; the
\* dry run only prints the batches
EndCollect ==
    /\ pc = "collect" /\ idx > Len(test_cases)
    /\ pc' = IF jira_links = <<>> \/ dry_run THEN "done" ELSE "batches"
    /\ idx' = 0
    /\ UNCHANGED <<family, dry_run, test_cases, updates, stats, log, linkVars>>
    /\ UNCHANGED <<fetchVars, textVars, poolVars>>

\* a batch that reaches one link into the next batch
overlapping_batch(links, i) == SubSeq(links, i + 1, Min({i + batch_size + 1, Len(links)}))

\* `batch = jira_links[i:i + self.batch_size]`
batch(links, i) == SubSeq(links, i + 1, Min({i + batch_size, Len(links)}))

CaseIds(links) == [j \in 1..Len(links) |-> links[j].case_id]

\* what a call of api.attach_external_issues comes to in the try statement:
\* a true result, a false result, or an exception
AttachOutcomes == {"attached", "failed", "raised"}

\* one pass of `for i in range(0, len(jira_links), self.batch_size):`
AttachBatch ==
    /\ pc = "batches" /\ idx < Len(jira_links)
    /\ \E outcome \in AttachOutcomes :
         /\ log' = Append(log, [cases |-> CaseIds(batch(jira_links, idx)),
                                single |-> FALSE, outcome |-> outcome])
         /\ stats' = IF outcome = "attached"
                      THEN [stats EXCEPT !.cases_attached = @ + Len(batch(jira_links, idx)),
                                         !.batches_attached = @ + 1]
                      ELSE stats
         /\ failed_batches' = IF outcome = "attached" THEN failed_batches
                               ELSE Append(failed_batches, batch(jira_links, idx))
    /\ idx' = idx + batch_size
    /\ UNCHANGED <<family, dry_run, test_cases, pc, updates, jira_links>>
    /\ UNCHANGED <<fetchVars, textVars, poolVars>>

\* `if failed_batches:` after the loop over the batches
EndBatches ==
    /\ pc = "batches" /\ idx >= Len(jira_links)
    /\ pc' = IF failed_batches = <<>> THEN "done" ELSE "retry"
    /\ idx' = 1
    /\ UNCHANGED <<family, dry_run, test_cases, updates, stats, log, linkVars>>
    /\ UNCHANGED <<fetchVars, textVars, poolVars>>

\* the links in the order of `for batch_num, batch in failed_batches: for link in batch:`
RECURSIVE retry_links(_)
retry_links(batches) ==
    IF batches = <<>> THEN <<>> ELSE Head(batches) \o retry_links(Tail(batches))

\* one pass of the inner retry loop: the link alone in a request
AttachSingle ==
    /\ pc = "retry" /\ idx <= Len(retry_links(failed_batches))
    /\ \E outcome \in AttachOutcomes :
         /\ log' = Append(log, [cases |-> <<retry_links(failed_batches)[idx].case_id>>,
                                single |-> TRUE, outcome |-> outcome])
         /\ stats' = Bump(stats, IF outcome = "attached" THEN "cases_attached" ELSE "errors")
    /\ idx' = idx + 1
    /\ UNCHANGED <<family, dry_run, test_cases, pc, updates, linkVars>>
    /\ UNCHANGED <<fetchVars, textVars, poolVars>>

EndRetry ==
    /\ pc = "retry" /\ idx > Len(retry_links(failed_batches))
    /\ pc' = "done"
    /\ UNCHANGED <<family, dry_run, test_cases, idx, updates, stats, log, linkVars>>
    /\ UNCHANGED <<fetchVars, textVars, poolVars>>

NextLink ==
    \/ Collect \/ EndCollect \/ AttachBatch \/ EndBatches \/ AttachSingle \/ EndRetry

SpecLink == InitLink /\ [][NextLink]_vars

\* the script runs on: each loop goes on to its next pass
FairLink == SpecLink /\ WF_vars(NextLink)

----------------------------------------------------------------------------
(* Properties of the drivers *)

Entries == {log[n] : n \in 1..Len(log)}

\* the answer is the structural rejection: HTTP 422 whose error body has the marker
Structural(resp) ==
    /\ resp.kind = "http" /\ resp.status = 422
    /\ resp.body.json /\ has_action_error(resp.body.errors)

Rejected(e) == e.received # <<>> /\ e.received[1].kind # "ok"

CountedOnly(e, key) ==
    /\ e.counted.needs_fixing = 1
    /\ \A k \in {"fixed", "errors"} : e.counted[k] = IF k = key THEN 1 ELSE 0

\* C1: in the attachment driver, when the first PATCH of a payload with steps is
\* rejected with 422 and the marker, exactly one more PATCH is sent, with every
\* blank step action forced to '.'; the record is counted fixed when the retry
\* succeeds and as an error when it fails; there is no third PATCH.
C1_StructuralRejectionRetriedOnce ==
    \A e \in Entries :
        (family = "att" /\ Rejected(e) /\ Structural(e.received[1])
           /\ "steps" \in DOMAIN e.payload) =>
            /\ Len(e.sent) = 2
            /\ e.sent[1] = e.payload
            /\ e.sent[2] = patched(e.payload)
            /\ Len(e.received) = 2
            /\ e.received[2].kind = "ok" => e.outcome = "fixed" /\ CountedOnly(e, "fixed")
            /\ e.received[2].kind # "ok" => e.outcome = "error" /\ CountedOnly(e, "errors")

\* C2: in every driver a first rejection that is not the structural one (a status
\* other than 422, a 422 without the marker, a transport error) is terminal: one
\* PATCH was sent, and the record is counted once in errors and not in fixed.
C2_OtherRejectionTerminal ==
    \A e \in Entries :
        (Rejected(e) /\ ~Structural(e.received[1])) =>
            /\ Len(e.sent) = 1
            /\ Len(e.received) = 1
            /\ e.outcome = "error"
            /\ CountedOnly(e, "errors")

\* an attachment run whose payload with steps got a 500 carrying the marker, and a
\* CSV run that met a transport error
C2_Witness ==
    \E e \in Entries :
        /\ Rejected(e) /\ ~Structural(e.received[1])
        /\ \/ family = "att" /\ e.received[1].status = 500 /\ "steps" \in DOMAIN e.payload
           \/ family = "csv" /\ e.received[1].kind = "transport"

\* C3: a record whose analysis yields an empty payload is no-change-needed in
\* every driver, dry-run or live: it is not counted in needs_fixing, fixed or
\* errors, and no update call is made for it.
C3_EmptyPayloadNeverSubmitted ==
    \A e \in Entries :
        e.payload = EmptyDict =>
            /\ e.sent = <<>>
            /\ e.received = <<>>
            /\ e.outcome = "skipped"
            /\ \A k \in {"needs_fixing", "fixed", "errors"} : e.counted[k] = 0

\* a live run that has passed over an unbroken record after a broken one
C3_Witness ==
    /\ ~dry_run
    /\ Len(log) = 2
    /\ log[1].payload # EmptyDict
    /\ log[2].payload = EmptyDict

\* C4: in dry-run mode no PATCH is issued for any record, every record with a
\* non-empty payload is counted as fixed, and errors stays 0.
C4_DryRunSendsNothing ==
    dry_run =>
        /\ stats.errors = 0
        /\ \A e \in Entries :
             /\ e.sent = <<>>
             /\ e.payload # EmptyDict => e.outcome = "fixed" /\ CountedOnly(e, "fixed")

\* a finished dry run over two records that both need an update
C4_Witness ==
    /\ dry_run /\ pc = "done"
    /\ Len(log) = 2
    /\ \A e \in Entries : e.payload # EmptyDict
    /\ stats.fixed = 2

\* every record of the list has been processed, in list order
AllProcessed ==
    /\ Len(log) = Len(test_cases)
    /\ \A n \in 1..Len(log) : log[n].case = test_cases[n].id

\* C5: a failed submission does not abort the batch: whatever the answers, the
\* run ends with every record of the list processed in list order.
C5_BatchNeverAborted == <>(pc = "done" /\ AllProcessed)

\* a finished run whose first record failed and whose second was then fixed
C5_Witness ==
    /\ pc = "done" /\ AllProcessed
    /\ Len(log) = 2
    /\ log[1].outcome = "error"
    /\ log[2].outcome = "fixed"

----------------------------------------------------------------------------
(* Properties of the analysis *)

LeafKeys == {"action", "expected_result", "data"}

\* no step of the emitted tree has an action that is present and blank
RECURSIVE ActionsFilled(_)
ActionsFilled(s) ==
    /\ "action" \in DOMAIN s => Truthy(s.action) /\ strip(s.action) # <<>>
    /\ HasNested(s) => \A n \in 1..Len(s.steps) : ActionsFilled(s.steps[n])

\* C6: no payload of any family's analysis holds a step whose action is empty or
\* whitespace-only: a blank action, pre-existing or left by the repair, is
\* emitted as the placeholder '.'.
C6_NoBlankActionInPayload ==
    (pc = "analyzed" /\ "steps" \in DOMAIN updates) =>
        \A n \in 1..Len(updates.steps) : ActionsFilled(updates.steps[n])

\* the step holds no attachment reference in any leaf
NoReference(s) ==
    \A k \in LeafKeys :
        Truthy(Get(s, k)) =>
            finditer("att1", Get(s, k)) = <<>> /\ finditer("att2", Get(s, k)) = <<>>

\* the action of the step becomes empty when the references are removed
Emptied(s) == Truthy(Get(s, "action")) /\ remove_attachment_references(s.action) = <<>>

SameIdentifiers(s, e) ==
    /\ "position" \in DOMAIN e /\ e.position = s.position
    /\ "hash" \in DOMAIN s => "hash" \in DOMAIN e /\ e.hash = s.hash

\* C7: for a record of two steps, one without attachment reference and with a
\* non-blank action, the other with an action the removal empties, the
\* attachment analysis emits both steps: the emptied action is '.', the leaves
\* of the other step are the original ones, position and hash are kept.
C7_EmptiedStepGetsPlaceholder ==
    (pc = "analyzed" /\ family = "att" /\ Len(test_cases[1].steps) = 2) =>
        \A u \in {1, 2} :
            (/\ NoReference(test_cases[1].steps[u])
             /\ ~BlankAction(test_cases[1].steps[u])
             /\ Emptied(test_cases[1].steps[3 - u])) =>
                /\ "steps" \in DOMAIN updates
                /\ Len(updates.steps) = 2
                /\ updates.steps[3 - u].action = Placeholder
                /\ \A k \in LeafKeys :
                     Get(updates.steps[u], k) = Get(test_cases[1].steps[u], k)
                /\ \A n \in {1, 2} : SameIdentifiers(test_cases[1].steps[n], updates.steps[n])

\* the repair of the family changes the leaf
Changes(fam, v) == Truthy(v) /\ repaired(fam, v, repair(fam, v)) # v

\* step e of the payload carries the repaired value of every leaf the repair
\* changes in step s and in the steps nested below it (a repaired action that is
\* blank may be carried as the placeholder)
RECURSIVE CarriesRepaired(_, _, _)
CarriesRepaired(fam, s, e) ==
    /\ \A k \in LeafKeys :
         Changes(fam, Get(s, k)) =>
            \/ Get(e, k) = repaired(fam, Get(s, k), repair(fam, Get(s, k)))
            \/ k = "action" /\ Get(e, k) = Placeholder /\ BlankAction(Put(s, k, repair(fam, s[k])))
    /\ HasNested(s) =>
         /\ "steps" \in DOMAIN e
         /\ Len(e.steps) = Len(s.steps)
         /\ \A n \in 1..Len(s.steps) : CarriesRepaired(fam, s.steps[n], e.steps[n])

\* some step nested below s has a leaf the repair changes
RECURSIVE BrokenBelow(_, _)
BrokenBelow(fam, s) ==
    HasNested(s) /\
      \E n \in 1..Len(s.steps) :
          \/ \E k \in LeafKeys : Changes(fam, Get(s.steps[n], k))
          \/ BrokenBelow(fam, s.steps[n])

\* C8: in each family, a broken pattern in a leaf of a step nested at any depth
\* below a top-level step is repaired: the payload is non-empty and carries the
\* repaired value of that nested leaf.
C8_NestedLeafRepaired ==
    pc = "analyzed" =>
        \A n \in 1..Len(test_cases[1].steps) :
            BrokenBelow(family, test_cases[1].steps[n]) =>
                /\ NeedsUpdate(updates)
                /\ "steps" \in DOMAIN updates
                /\ Len(updates.steps) = Len(test_cases[1].steps)
                /\ CarriesRepaired(family, test_cases[1].steps[n], updates.steps[n])

----------------------------------------------------------------------------
(* Properties of the text functions *)

\* C9: CSV-reference repair is idempotent: a second fix_text over the repaired
\* text reports no change, and the repaired text holds no match of any of the
\* three dialect patterns.
C9_CsvRepairIdempotent ==
    (tpc = "twice" /\ family = "csv") =>
        /\ twice = None
        /\ find_broken_csv_references(repaired(family, text, once)) = <<>>

\* C10: attachment-reference removal is idempotent: removing from the cleaned
\* text returns the cleaned text, also when a removal joins the text on its two
\* sides into a new reference.
C10_AttRemovalIdempotent ==
    (tpc = "twice" /\ family = "att") => twice = once

\* C11: HTML-tag removal is idempotent: stripping the stripped text returns it
\* unchanged, for the tag deletion and for the whitespace normalisation.
C11_HtmlStripIdempotent ==
    (tpc = "twice" /\ family = "html") => twice = once

\* a text with a tag that is stripped to a non-empty text, stripped twice
C11_Witness ==
    /\ tpc = "twice" /\ family = "html"
    /\ text # None /\ finditer("tag", text) # <<>>
    /\ once # <<>> /\ once # text

\* some dialect pattern of the CSV repair matches in t
CsvMatches(t) == \E pat \in {"csv1", "csv2", "csv3"} : finditer(pat, t) # <<>>

\* C12: fix_text returns None exactly when the text is absent, empty or without
\* a match of the three dialect patterns; when a pattern matches it returns a
\* text that differs from its input; it never returns its input.
C12_FixTextThreeWay ==
    (tpc = "once" /\ family = "csv") =>
        /\ once = None <=> (text = None \/ text = <<>> \/ ~CsvMatches(text))
        /\ once # None => once # text

\* a text with a match, repaired to a shorter text
C12_Witness ==
    /\ tpc = "once" /\ family = "csv"
    /\ text # None /\ CsvMatches(text)
    /\ once # None /\ Len(once) < Len(text)

ScalarKeys == {"description", "preconditions", "postconditions"}

\* the text holds no pattern the family's repair recognises
PatternFree(fam, v) ==
    ~Truthy(v) \/
      CASE fam = "att" -> finditer("att1", v) = <<>> /\ finditer("att2", v) = <<>>
        [] fam = "html" -> finditer("tag", v) = <<>>
        [] fam = "csv" -> ~CsvMatches(v)

\* C13: in the attachment and HTML families a leaf without recognised pattern is
\* reported unchanged, whatever its whitespace: a scalar field or custom field
\* is not put in the payload, and a step leaf is emitted with its original text.
C13_PatternFreeLeafUnchanged ==
    (pc = "analyzed" /\ family \in {"att", "html"}) =>
        /\ \A k \in ScalarKeys :
             PatternFree(family, Get(test_cases[1], k)) => k \notin DOMAIN updates
        /\ \A n \in 1..Len(test_cases[1].custom_fields) :
             (/\ PatternFree(family, test_cases[1].custom_fields[n].value)
              /\ "id" \in DOMAIN test_cases[1].custom_fields[n]
              /\ "custom_field" \in DOMAIN updates) =>
                str(test_cases[1].custom_fields[n].id) \notin DOMAIN updates.custom_field
        /\ "steps" \in DOMAIN updates =>
             \A n \in 1..Len(test_cases[1].steps), k \in LeafKeys :
                 (/\ Truthy(Get(test_cases[1].steps[n], k))
                  /\ PatternFree(family, Get(test_cases[1].steps[n], k))
                  /\ ~(k = "action" /\ BlankAction(test_cases[1].steps[n]))) =>
                     Get(updates.steps[n], k) = Get(test_cases[1].steps[n], k)

PlainReference ==
    <<"[", "d", "a", "t", "a", "_", "1", ".", "c", "s", "v", "]", "(", "h", "t", "t",
      "p", ":", "/", "/", "x", "/", "y", ")">>

\* C14: the fully-escaped reference is repaired to [data_1.csv](http://x/y):
\* every escaped delimiter and literal is resolved and no backslash is left.
C14_EscapedExampleRepaired ==
    (tpc = "once" /\ family = "csv" /\ text = EscapedExample) =>
        /\ once = PlainReference
        /\ \A n \in 1..Len(once) : once[n] # "\\"

RepairedBangReference ==
    <<"a", " ", "[", "r", "e", "a", "d", "m", "e", ".", "c", "s", "v", "]", "(", "h",
      "t", "t", "p", ":", "/", "/", "x", "/", "y", ")", " ", "c">>

\* C15 as stated: the repair of 'a !b[readme.csv](http://x/y) c' yields
\* 'a [readme.csv](http://x/y) c'.
C15_BangExampleRepaired ==
    (tpc = "once" /\ family = "csv" /\ text = BangExample) => once = RepairedBangReference

\* C15 amended: 'a ![readme.csv](http://x/y) c' is repaired to
\* 'a [readme.csv](http://x/y) c'; in 'a !b[readme.csv](http://x/y) c' the '!' is
\* not followed by '[', no pattern matches and fix_text reports no change.
C15_BangReferenceRepaired ==
    (tpc = "once" /\ family = "csv") =>
        /\ text = BangReference => once = RepairedBangReference
        /\ text = BangExample => once = None

\* the unescaped-bang reference and its repair
C15_Witness ==
    /\ tpc = "once" /\ family = "csv"
    /\ text = BangReference /\ once = RepairedBangReference

\* custom field n of the record has an id and a value the repair changes
FieldChanged(n) ==
    /\ "id" \in DOMAIN test_cases[1].custom_fields[n]
    /\ Changes(family, test_cases[1].custom_fields[n].value)

ChangedFields == {n \in 1..Len(test_cases[1].custom_fields) : FieldChanged(n)}

\* C16: in every family the payload key 'custom_field' is a map from the
\* stringified id to the repaired value, with an entry for a field exactly when
\* the field has an id and its repaired value differs from the original; the
\* key is absent when no custom field changed.
C16_CustomFieldMap ==
    pc = "analyzed" =>
        /\ "custom_field" \in DOMAIN updates <=> ChangedFields # {}
        /\ "custom_field" \in DOMAIN updates =>
             /\ DOMAIN updates.custom_field =
                  {str(test_cases[1].custom_fields[n].id) : n \in ChangedFields}
             /\ \A n \in ChangedFields :
                  updates.custom_field[str(test_cases[1].custom_fields[n].id)] =
                    repaired(family, test_cases[1].custom_fields[n].value,
                             repair(family, test_cases[1].custom_fields[n].value))

\* a record of two fields with ids, one changed and one not: one entry
C16_Witness ==
    /\ pc = "analyzed"
    /\ Len(test_cases[1].custom_fields) = 2
    /\ \A n \in {1, 2} : "id" \in DOMAIN test_cases[1].custom_fields[n]
    /\ Cardinality(ChangedFields) = 1
    /\ "custom_field" \in DOMAIN updates
    /\ Cardinality(DOMAIN updates.custom_field) = 1

\* the repair changes leaf k of step s, or k is an action the placeholder replaces
LeafChanged(fam, s, k) ==
    Changes(fam, Get(s, k)) \/ (k = "action" /\ BlankAction(s))

\* some leaf of s or of a step nested below s changes
RECURSIVE StepChanged(_, _)
StepChanged(fam, s) ==
    \/ \E k \in LeafKeys : LeafChanged(fam, s, k)
    \/ HasNested(s) /\ \E n \in 1..Len(s.steps) : StepChanged(fam, s.steps[n])

\* C17: in every family the payload holds 'steps' exactly when at least one
\* step leaf changed, and then it holds the whole top-level list: as many steps
\* as the record, in the same order, each with the position and the hash of the
\* original step, and with the original action, expected_result and data for
\* every leaf that did not change.
C17_WholeStepListWhenChanged ==
    pc = "analyzed" =>
        /\ "steps" \in DOMAIN updates <=>
              \E n \in 1..Len(test_cases[1].steps) : StepChanged(family, test_cases[1].steps[n])
        /\ "steps" \in DOMAIN updates =>
              /\ Len(updates.steps) = Len(test_cases[1].steps)
              /\ \A n \in 1..Len(updates.steps) :
                    /\ SameIdentifiers(test_cases[1].steps[n], updates.steps[n])
                    /\ \A k \in LeafKeys :
                          ~LeafChanged(family, test_cases[1].steps[n], k) =>
                              Get(updates.steps[n], k) = Get(test_cases[1].steps[n], k)

\* C18: after each record and at the end of a run, needs_fixing = fixed +
\* errors; each record adds to at most one of fixed and errors; in the html and
\* the attachment driver needs_fixing + skipped is the number of records
\* processed so far, and the total at the end.
C18_CountersBalance ==
    /\ stats.needs_fixing = stats.fixed + stats.errors
    /\ \A e \in Entries :
          /\ e.counted.fixed \in {0, 1} /\ e.counted.errors \in {0, 1}
          /\ e.counted.fixed + e.counted.errors <= 1
    /\ family \in {"html", "att"} =>
          /\ stats.needs_fixing + stats.skipped = Len(log)
          /\ pc = "done" => stats.needs_fixing + stats.skipped = Len(test_cases)

\* a finished run over two records, one skipped and one whose update failed
C18_Witness ==
    /\ pc = "done" /\ family \in {"html", "att"} /\ Len(test_cases) = 2
    /\ stats.skipped = 1 /\ stats.errors = 1 /\ stats.needs_fixing = 1

\* C19: when a page request of the record list fails (transport error or a
\* response with status false), the run does not proceed: no record is
\* analyzed and no update is submitted on the partially fetched list.
C19_FailedFetchStopsRun ==
    fetch_failed => (pc # "analyzed" /\ updates = EmptyDict /\ log = <<>>)

\* the DELETE requests sent for the attachment with hash h
Deletions(h) == Cardinality({n \in 1..Len(deletions) : deletions[n] = h})

\* the workers whose request is answered and whose increment is not yet stored
Tallying == {w \in Workers : workers[w].pc \in {"acquire", "read", "write"}}

PoolSafe ==
    family = "delete_attachments_by_size" =>
    /\ \A n \in 1..Len(attachments) :
          /\ Deletions(attachments[n].hash) <= 1
          /\ ~HasTargetSize(attachments[n]) => Deletions(attachments[n].hash) = 0
          /\ (mainpc = "done" /\ HasTargetSize(attachments[n])) =>
                 Deletions(attachments[n].hash) = 1
    /\ \A w \in Workers : workers[w].pc \in {"read", "write"} => lock = w
    /\ counter.deleted + counter.failed = Len(deletions) - Cardinality(Tallying)
    /\ mainpc = "done" =>
          counter.deleted + counter.failed = Len(matching_attachments(attachments))

\* C20: in the bulk attachment deletion, whatever the interleaving of the pool
\* threads, each matching attachment is submitted for deletion exactly once,
\* every increment of the shared tallies is made under the lock and none is
\* lost, the pool runs to completion, and then deleted + failed is the number
\* of matching attachments.
C20_PoolDeletesEachOnce == []PoolSafe /\ (mainpc = "pool" ~> mainpc = "done")

\* a finished run with a deleted, a failed and a non-matching attachment
C20_Witness ==
    /\ mainpc = "done" /\ Len(attachments) = 3 /\ Len(deletions) = 2
    /\ counter.deleted = 1 /\ counter.failed = 1

\* the number of backslashes of a text
Backslashes(t) == Cardinality({n \in 1..Len(t) : t[n] = "\\"})

\* C21: in fix_text the rewrites of the dialects do not interfere: every
\* escaped-bang reference of the input loses its backslash together with its
\* '!', also when the same reference occurs in unescaped-bang form elsewhere
\* (stated for texts without fully-escaped reference: the repair removes one
\* backslash per escaped-bang reference and no other).
C21_DialectsDoNotInterfere ==
    (/\ tpc = "once" /\ family = "csv" /\ text # None
     /\ finditer("csv2", text) # <<>> /\ finditer("csv3", text) = <<>>) =>
        /\ once # None
        /\ Backslashes(once) = Backslashes(text) - Len(finditer("csv2", text))

\* C22: the reference repair rewrites only image-style references whose name
\* ends in '.csv': a reference whose name goes on after '.csv', and a non-CSV
\* reference that precedes a CSV reference on the same line, are left
\* unchanged by fix_text.
C22_OnlyCsvNamesRewritten ==
    (tpc = "once" /\ family = "csv") =>
        /\ text = SuffixExample => once = None
        /\ text = PrecedingExample =>
              once = EscapedPng \o <<" ", "[", "b", ".", "c", "s", "v", "]", "(", "u", ")">>

\* C23: in the fully-escaped repair every escape sequence of the captured name
\* and url is resolved exactly once: an escaped backslash followed by a
\* literal character ('_' in the name, '/' in the url) yields one backslash
\* followed by that character, never the bare character.
C23_EscapesResolvedOnce ==
    (tpc = "once" /\ family = "csv" /\ text = DoubleEscapeExample) =>
        once = <<"[", "a", "\\", "_", "b", ".", "c", "s", "v", "]", "(", "u", "\\", "/", "v", ")">>

Blank == {" ", "\t"}

\* t has no tag, no run of blanks, no blank at the start or end of a line, no
\* three newlines in a row and no whitespace at its start or end
HtmlClean(t) ==
    /\ finditer("tag", t) = <<>>
    /\ \A n \in 1..Len(t) :
          t[n] \in Blank =>
             /\ 1 < n /\ n < Len(t)
             /\ t[n - 1] \notin Blank \cup {"\n"}
             /\ t[n + 1] \notin Blank \cup {"\n"}
    /\ \A n \in 1..Len(t) - 2 : ~(t[n] = "\n" /\ t[n + 1] = "\n" /\ t[n + 2] = "\n")
    /\ t # <<>> => t[1] \notin Whitespace /\ t[Len(t)] \notin Whitespace

StepOneStepTwo ==
    <<"S", "t", "e", "p", " ", "o", "n", "e", "\n", "\n", "S", "t", "e", "p", " ", "t", "w", "o">>

\* C24: for every non-empty text, the result of strip_html_tags holds no tag
\* '<...>', no run of two or more spaces or tabs inside a line, no line with a
\* leading or trailing space or tab, no three consecutive newlines and no
\* leading or trailing whitespace; the two-paragraph example yields
\* 'Step one', two newlines, 'Step two'.
C24_HtmlResultClean ==
    (tpc = "once" /\ family = "html" /\ Truthy(text)) =>
        /\ HtmlClean(once)
        /\ text = HtmlExample => once = StepOneStepTwo

\* the two-paragraph example and its result
C24_Witness ==
    /\ tpc = "once" /\ family = "html" /\ text = HtmlExample /\ once = StepOneStepTwo
    /\ ~HtmlClean(text)

\* no offset is requested twice
DistinctOffsets ==
    \A m, n \in 1..Len(requested) : m # n => requested[m] # requested[n]

\* C25: the pagination loop of get_all_test_cases terminates for every sequence
\* of page responses with a finite reported total, also when a page reports
\* count 0 with entities, and it never requests the same offset twice.
C25_PaginationTerminates == []DistinctOffsets /\ <>(pc = "start")

\* C26: every payload of the attachment analysis is a fixed point of the retry
\* correction: ensure_step_has_action applied to each step of payload['steps']
\* returns the steps the payload already holds, so that the retry of
\* update_test_case_with_retry would resubmit the payload that was rejected.
C26_PayloadFixedUnderCorrection ==
    (pc = "analyzed" /\ family = "att" /\ "steps" \in DOMAIN updates) =>
        /\ \A n \in 1..Len(updates.steps) :
              ensure_step_has_action(updates.steps[n]) = updates.steps[n]
        /\ patched(updates) = updates

\* a payload that holds a placeholder action and a step with nested steps
C26_Witness ==
    /\ pc = "analyzed" /\ family = "att" /\ "steps" \in DOMAIN updates
    /\ \E n \in 1..Len(updates.steps) : updates.steps[n].action = Placeholder
    /\ \E n \in 1..Len(updates.steps) : HasNested(updates.steps[n])

\* C27: in both bulk-delete scripts no DELETE request is sent unless the
\* operator's answer to the prompt, lower-cased, is 'yes'; with any other
\* answer the run ends without a delete call, and no delete call precedes the
\* prompt.
C27_NoDeleteWithoutYes ==
    /\ deletions # <<>> => (answer # None /\ lower(answer) = <<"y", "e", "s">>)
    /\ (answer # None /\ lower(answer) # <<"y", "e", "s">>) =>
          (mainpc = "cancelled" /\ deletions = <<>>)
    /\ mainpc = "start" => (answer = None /\ deletions = <<>>)

\* the custom fields deleted after the answer 'YES'
C27_Witness ==
    /\ family = "delete_custom_fields" /\ mainpc = "done"
    /\ answer = <<"Y", "E", "S">> /\ Len(deletions) = 2

\* payload p clears the source field and carries the source value of record tc
CarriesSource(p, tc) ==
    /\ ~blank_source(Get(tc, "preconditions"))
    /\ p.preconditions = <<>>
    /\ "custom_field" \in DOMAIN p
    /\ p.custom_field[str(7)] = tc.preconditions

\* C28: in the field migration every payload that clears the source field also
\* sets, in the same update, the destination custom field to the original
\* source value of the record; it is built only for records whose source
\* value is not blank, and a failed update leaves both fields as they were.
C28_SourceClearedOnlyWithCopy ==
    /\ (pc = "analyzed" /\ updates # EmptyDict) => CarriesSource(updates, test_cases[idx])
    /\ \A n \in 1..Len(log) :
          /\ CarriesSource(log[n].sent, test_cases[log[n].i])
          /\ ~log[n].ok => server[log[n].i] = test_cases[log[n].i]
          /\ log[n].ok =>
                /\ server[log[n].i].preconditions = <<>>
                /\ server[log[n].i].custom_fields[1].value =
                      test_cases[log[n].i].preconditions
    /\ \A i \in 1..Len(server) :
          (\A n \in 1..Len(log) : log[n].i # i) => server[i] = test_cases[i]

\* a run in which one migration failed and one, of a value with blanks around
\* it, went through
C28_Witness ==
    /\ family = "migration" /\ pc = "done" /\ Len(log) = 2
    /\ ~log[1].ok /\ log[2].ok
    /\ test_cases[2].preconditions = <<" ", "b", " ">>
    /\ server[2].custom_fields[1].value = <<" ", "b", " ">>

\* the entries of the log that submit case c in a batch, and alone
BatchesOf(c) ==
    {n \in 1..Len(log) : ~log[n].single /\ \E j \in 1..Len(log[n].cases) : log[n].cases[j] = c}

SinglesOf(c) ==
    {n \in 1..Len(log) : log[n].single /\ log[n].cases = <<c>>}

\* the cases the analysis found JIRA issues for
CasesWithIssues ==
    {test_cases[n].id : n \in {m \in 1..Len(test_cases) :
                                  extract_from_test_case(test_cases[m]) # <<>>}}

LinkSafe ==
    family = "link_jira_issues" =>
      /\ \A n \in 1..Len(log) : \A j \in 1..Len(log[n].cases) :
            log[n].cases[j] \in CasesWithIssues
      /\ \A c \in CasesWithIssues :
            /\ Cardinality(BatchesOf(c)) <= 1
            /\ Cardinality(SinglesOf(c)) <= 1
            /\ \A n \in SinglesOf(c) :
                  \E b \in BatchesOf(c) : b < n /\ log[b].outcome # "attached"
      /\ (pc = "done" /\ ~dry_run) =>
            /\ \A c \in CasesWithIssues :
                  /\ Cardinality(BatchesOf(c)) = 1
                  /\ \A b \in BatchesOf(c) :
                        (log[b].outcome # "attached") <=> Cardinality(SinglesOf(c)) = 1
            /\ stats.cases_attached + stats.errors = stats.with_jira_issues
            /\ stats.with_jira_issues = Cardinality(CasesWithIssues)

\* C29: in the live run of the JIRA linker every case with extracted issue ids
\* is submitted in exactly one batch and is resubmitted alone exactly once if
\* and only if its batch failed or raised; no case is submitted more than
\* twice, and when the run ends cases_attached + errors equals the number of
\* cases with JIRA issues.
C29_BatchThenSingleRetry == []LinkSafe /\ <>(pc = "done")

\* a live run of three cases: the batch of two failed, one of its cases then
\* went through alone and the other did not; the last batch was attached
C29_Witness ==
    /\ family = "link_jira_issues" /\ pc = "done" /\ ~dry_run
    /\ Len(log) = 4
    /\ log[1] = [cases |-> <<1, 2>>, single |-> FALSE, outcome |-> "failed"]
    /\ log[2] = [cases |-> <<3>>, single |-> FALSE, outcome |-> "attached"]
    /\ log[3] = [cases |-> <<1>>, single |-> TRUE, outcome |-> "attached"]
    /\ log[4] = [cases |-> <<2>>, single |-> TRUE, outcome |-> "raised"]
    /\ stats.cases_attached = 2 /\ stats.errors = 1

\* step out holds the tree of steps nested below step orig: as many, in the
\* same order, at every depth
RECURSIVE KeepsTree(_, _)
KeepsTree(orig, out) ==
    HasNested(orig) =>
        /\ "steps" \in DOMAIN out
        /\ Len(out.steps) = Len(orig.steps)
        /\ \A n \in 1..Len(orig.steps) :
              /\ SameIdentifiers(orig.steps[n], out.steps[n])
              /\ KeepsTree(orig.steps[n], out.steps[n])

\* C30: whenever the analysis of a family emits the step list, every emitted
\* step keeps the nested step tree of the original step: a step with nested
\* 'steps' is emitted with a 'steps' list of the same length and order at
\* every depth.
C30_NestedStepsKept ==
    (pc = "analyzed" /\ "steps" \in DOMAIN updates) =>
        /\ Len(updates.steps) = Len(test_cases[1].steps)
        /\ \A n \in 1..Len(updates.steps) :
              KeepsTree(test_cases[1].steps[n], updates.steps[n])

====
